---- MODULE Spec2Model ----
(***************************************************************************)
(* Image comparison grader: the scoring pipeline of lib/advancedGrading    *)
(* (similarity metrics, style-adjusted grade, feedback).                   *)
(*                                                                         *)
(* JavaScript numbers are modelled as binary floating point with           *)
(* round-to-nearest-even after every operation, as IEEE 754 prescribes.    *)
(* The significand has Prec bits instead of 53 and the exponent range is   *)
(* unbounded (no overflow, no underflow, no negative zero).                *)
(***************************************************************************)
EXTENDS Integers, Sequences, FiniteSets, TLC

\* Width of the significand, in bits.
Prec == 13

VARIABLES
  phase,           \* "extract", "ssim", "scored", "styled", "graded"
  features1,       \* the embedding model.infer returned for the first image
  features2,       \* the embedding model.infer returned for the second image
  cosineSim,       \* calculateEnhancedSimilarity: the cosine similarity
  data1,           \* calculateAccurateSSIM: the pixels of the first canvas
  data2,           \* calculateAccurateSSIM: the pixels of the second canvas
  loaded,          \* calculateAccurateSSIM: both images fired their load event
  similarities,    \* the three similarity scores, NoResult until computed
  style,           \* generateEnhancedGrade: the detected style and its confidence
  config,          \* generateEnhancedGrade: the GradingConfig
  enhancedResult,  \* the EnhancedComparisonResult returned, NoResult before the call
  percentage,      \* the value written by console.log('Final percentage:', ...)
  previous,        \* the grade and percentage of the comparison before this one
  correlationOut,  \* the value a call of calculateCorrelation returned
  context,         \* getContext('2d') returned a context for every canvas
  images,          \* per Image element: "idle", "pending", "loaded" or "error"
  loadedCount,     \* calculateAccurateSSIM: let loadedCount
  extracts,        \* per extractFeatures promise: "pending", "fulfilled", "rejected"
  promise,         \* the promise returned: its state, its value and the
                   \* number of calls of resolve or reject so far
  backing,         \* how the canvas stores pixels: "premultiplied", "lossless"
  sources,         \* generateDifferenceHeatmap: the RGBA pixels of the two images
  diffData,        \* generateDifferenceHeatmap: the pixels put on the canvas
  page,            \* the state of EnhancedImageComparisonApp (useState values)
  before,          \* the page state when the running comparison was started,
                   \* which the closure of compareImages holds
  inFlight,        \* the number of compareImages calls that have not finished
  embeddings,      \* per image, the embedding model.infer returns for it
  tensors,         \* the tf.Tensor objects made so far: who made each one and
                   \* how many times dispose() was called on it
  call,            \* the function whose tensors are followed, "" when none is
  arrival          \* the images whose load event has fired, in firing order

\* The state of the calls that are followed on their own.
heatVars == <<backing, sources, diffData>>

pageVars == <<page, before, inFlight, embeddings>>

resourceVars == <<tensors, call, arrival>>

callVars == <<correlationOut, context, images, loadedCount, extracts, promise,
              heatVars, pageVars, resourceVars>>

vars == <<phase, features1, features2, cosineSim, data1, data2, loaded,
          similarities, style, config, enhancedResult, percentage, previous,
          callVars>>

----------------------------------------------------------------------------
(* Numbers *)

NaN == [k |-> "nan", m |-> 0, e |-> 0]

\* The finite number m * 2^e.  Canonical form: m = 0 and e = 0, or
\* 2^(Prec-1) <= |m| < 2^Prec.
Fin(m, e) == [k |-> "fin", m |-> m, e |-> e]

\* +Infinity (s = 1) and -Infinity (s = -1).
Infinity(s) == [k |-> "inf", m |-> s, e |-> 0]

Zero == Fin(0, 0)

IsNaN(x) == x.k = "nan"

IsFinite(x) == x.k = "fin"

Sgn(n) == IF n > 0 THEN 1 ELSE IF n < 0 THEN -1 ELSE 0

AbsInt(n) == IF n < 0 THEN -n ELSE n

RECURSIVE BitLen(_)
BitLen(n) == IF n = 0 THEN 0 ELSE 1 + BitLen(n \div 2)

\* n \div p rounded to the nearest integer, ties to even, where the dividend
\* is n + d with 0 <= d < 1 and sticky = (d > 0).
RoundedQuotient(n, p, sticky) ==
  IF 2 * (n % p) > p \/ (2 * (n % p) = p /\ (sticky \/ (n \div p) % 2 = 1))
  THEN n \div p + 1
  ELSE n \div p

\* A significand that rounding carried up to 2^Prec takes the next exponent.
Renormalized(sign, mm, e) ==
  IF mm = 2^Prec THEN Fin(sign * 2^(Prec - 1), e + 1) ELSE Fin(sign * mm, e)

\* n has Prec + s bits.
ShiftToPrec(sign, n, e, sticky, s) ==
  IF s <= 0
  THEN Fin(sign * n * 2^(-s), e + s)
  ELSE Renormalized(sign, RoundedQuotient(n, 2^s, sticky), e + s)

\* The number nearest to sign * (n + d) * 2^e, where 0 <= d < 1 and
\* sticky = (d > 0); ties go to the even significand.
RoundToPrec(sign, n, e, sticky) ==
  IF n = 0 THEN Zero ELSE ShiftToPrec(sign, n, e, sticky, BitLen(n) - Prec)

\* The number nearest to n * 2^e.
RoundInt(n, e) == RoundToPrec(Sgn(n), AbsInt(n), e, FALSE)

FromInt(n) == RoundInt(n, 0)

FNeg(x) == IF IsNaN(x) THEN NaN ELSE [x EXCEPT !.m = -x.m]

\* Math.abs
MathAbs(x) == IF IsNaN(x) THEN NaN ELSE [x EXCEPT !.m = AbsInt(x.m)]

\* The sum of two finite numbers, e the smaller of their exponents.
AddAligned(x, y, e) == RoundInt(x.m * 2^(x.e - e) + y.m * 2^(y.e - e), e)

\* x + y
FAdd(x, y) ==
  IF IsNaN(x) \/ IsNaN(y) THEN NaN
  ELSE IF x.k = "inf" THEN (IF y.k = "inf" /\ y.m # x.m THEN NaN ELSE x)
  ELSE IF y.k = "inf" THEN y
  ELSE IF x.m = 0 THEN y
  ELSE IF y.m = 0 THEN x
  ELSE IF x.e - y.e >= Prec + 2 THEN x
  ELSE IF y.e - x.e >= Prec + 2 THEN y
  ELSE AddAligned(x, y, IF x.e < y.e THEN x.e ELSE y.e)

\* x - y
FSub(x, y) == FAdd(x, FNeg(y))

\* x * y
FMul(x, y) ==
  IF IsNaN(x) \/ IsNaN(y) THEN NaN
  ELSE IF x.k = "inf" \/ y.k = "inf"
       THEN (IF x.m = 0 \/ y.m = 0 THEN NaN ELSE Infinity(Sgn(x.m) * Sgn(y.m)))
  ELSE RoundToPrec(Sgn(x.m) * Sgn(y.m), AbsInt(x.m) * AbsInt(y.m), x.e + y.e, FALSE)

\* The number nearest to sign * (n / d) * 2^e.
Quotient(sign, n, d, e) == RoundToPrec(sign, n \div d, e, n % d # 0)

\* x / y
FDiv(x, y) ==
  IF IsNaN(x) \/ IsNaN(y) THEN NaN
  ELSE IF x.k = "inf"
       THEN (IF y.k = "inf" THEN NaN ELSE Infinity(IF y.m < 0 THEN -x.m ELSE x.m))
  ELSE IF y.k = "inf" THEN Zero
  ELSE IF y.m = 0 THEN (IF x.m = 0 THEN NaN ELSE Infinity(Sgn(x.m)))
  ELSE IF x.m = 0 THEN Zero
  ELSE Quotient(Sgn(x.m) * Sgn(y.m), AbsInt(x.m) * 2^(Prec + 1), AbsInt(y.m),
                x.e - y.e - (Prec + 1))

RECURSIVE ISqrt(_)
ISqrt(n) ==
  IF n < 2 THEN n
  ELSE LET s == 2 * ISqrt(n \div 4)
       IN  IF (s + 1) * (s + 1) <= n THEN s + 1 ELSE s

\* The number nearest to sqrt(n) * 2^e, r the integer square root of n.
RootRounded(n, r, e) == RoundToPrec(1, r, e, r * r # n)

\* The square root of x.m * 2^x.e, with sh chosen to make x.e - sh even.
SqrtShifted(x, sh) == RootRounded(x.m * 2^sh, ISqrt(x.m * 2^sh), (x.e - sh) \div 2)

\* Math.sqrt
MathSqrt(x) ==
  IF IsNaN(x) THEN NaN
  ELSE IF x.k = "inf" THEN (IF x.m > 0 THEN x ELSE NaN)
  ELSE IF x.m < 0 THEN NaN
  ELSE IF x.m = 0 THEN Zero
  ELSE SqrtShifted(x, IF (x.e - (Prec + 1)) % 2 = 0 THEN Prec + 1 ELSE Prec + 2)

\* The decimal literal n/d (n and d written with at most Prec bits).
Lit(n, d) == FDiv(FromInt(n), FromInt(d))

\* x === y
FEq(x, y) == ~IsNaN(x) /\ ~IsNaN(y) /\ x = y

\* x < y
FLt(x, y) ==
  IF IsNaN(x) \/ IsNaN(y) THEN FALSE
  ELSE IF x = y THEN FALSE
  ELSE IF x.k = "inf" THEN x.m < 0
  ELSE IF y.k = "inf" THEN y.m > 0
  ELSE IF Sgn(x.m) # Sgn(y.m) THEN Sgn(x.m) < Sgn(y.m)
  ELSE IF x.e # y.e THEN (IF x.m > 0 THEN x.e < y.e ELSE x.e > y.e)
  ELSE x.m < y.m

\* x > y
FGt(x, y) == FLt(y, x)

\* x >= y
FGe(x, y) == FLt(y, x) \/ FEq(x, y)

\* x <= y
FLe(x, y) == FLt(x, y) \/ FEq(x, y)

\* Math.max(x, y)
MathMax(x, y) == IF IsNaN(x) \/ IsNaN(y) THEN NaN ELSE IF FLt(x, y) THEN y ELSE x

\* Math.min(x, y)
MathMin(x, y) == IF IsNaN(x) \/ IsNaN(y) THEN NaN ELSE IF FLt(y, x) THEN y ELSE x

\* Math.round(x) = floor(x + 1/2), computed exactly.
MathRound(x) ==
  IF ~IsFinite(x) THEN x
  ELSE IF x.e >= 0 THEN x
  ELSE IF -x.e > Prec + 1 THEN Zero
  ELSE LET s == -x.e
       IN  IF x.m >= 0
           THEN FromInt((2 * x.m + 2^s) \div 2^(s + 1))
           ELSE IF 2 * (-x.m) <= 2^s THEN Zero
           ELSE FromInt(-((2 * (-x.m) - 2^s + 2^(s + 1) - 1) \div 2^(s + 1)))

\* x is an integer
IsInteger(x) == IsFinite(x) /\ MathRound(x) = x

----------------------------------------------------------------------------
(* Similarity metrics over embedding vectors *)

\* f[i]; undefined, which arithmetic turns into NaN, outside the array
At(f, i) == IF i \in DOMAIN f THEN f[i] ELSE NaN

\* terms.reduce((sum, val) => sum + val, 0)
RECURSIVE SumFirst(_, _)
SumFirst(terms, n) == IF n = 0 THEN Zero ELSE FAdd(SumFirst(terms, n - 1), terms[n])

Sum(terms) == SumFirst(terms, Len(terms))

\* features.reduce((sum, val) => sum + val, 0) / features.length
Mean(features) == FDiv(Sum(features), FromInt(Len(features)))

\* features.reduce((sum, val) => sum + (val - mean) ** 2, 0) / features.length
Variance(features, mean) ==
  FDiv(Sum([i \in 1..Len(features) |->
              FMul(FSub(features[i], mean), FSub(features[i], mean))]),
       FromInt(Len(features)))

\* Math.pow(x, 1.5)
Pow15(x) == FMul(x, MathSqrt(x))

\* Math.pow(x, 3)
Pow3(x) == FMul(FMul(x, x), x)

normalizeFeatures(features) ==
  LET mean == Mean(features)
      std  == MathSqrt(Variance(features, mean))
  IN  [i \in 1..Len(features) |->
         IF FGt(std, Zero) THEN FDiv(FSub(features[i], mean), std) ELSE Zero]

\* The cosine with the rescaling written as similarity + 1 / 2.
CosineMisparenthesized(a, b) ==
  LET normA == normalizeFeatures(a)
      normB == normalizeFeatures(b)
      dotProduct == Sum([i \in 1..Len(normA) |-> FMul(normA[i], At(normB, i))])
      magnitudeA == MathSqrt(Sum([i \in 1..Len(normA) |-> FMul(normA[i], normA[i])]))
      magnitudeB == MathSqrt(Sum([i \in 1..Len(normB) |-> FMul(normB[i], normB[i])]))
  IN  IF FEq(magnitudeA, Zero) \/ FEq(magnitudeB, Zero) THEN Zero
      ELSE LET similarity    == FDiv(dotProduct, FMul(magnitudeA, magnitudeB))
               normalizedSim == FAdd(similarity, FDiv(Lit(1, 1), Lit(2, 1)))
           IN  FMul(normalizedSim, normalizedSim)

\* calculateAccurateCosineSimilarity after its length check
CosineOfNormalized(a, b) ==
  LET normA == normalizeFeatures(a)
      normB == normalizeFeatures(b)
      dotProduct == Sum([i \in 1..Len(normA) |-> FMul(normA[i], At(normB, i))])
      magnitudeA == MathSqrt(Sum([i \in 1..Len(normA) |-> FMul(normA[i], normA[i])]))
      magnitudeB == MathSqrt(Sum([i \in 1..Len(normB) |-> FMul(normB[i], normB[i])]))
  IN  IF FEq(magnitudeA, Zero) \/ FEq(magnitudeB, Zero) THEN Zero
      ELSE LET similarity    == FDiv(dotProduct, FMul(magnitudeA, magnitudeB))
               normalizedSim == FDiv(FAdd(similarity, Lit(1, 1)), Lit(2, 1))
           IN  FMul(normalizedSim, normalizedSim)

\* The cosine without the length check.
CosineWithoutLengthGuard(a, b) == CosineOfNormalized(a, b)

calculateAccurateCosineSimilarity(a, b) ==
  IF Len(a) # Len(b) THEN Zero ELSE CosineOfNormalized(a, b)

\* The correlation with the sum of the two sums of squares as denominator.
CorrelationOverSum(x, y) ==
  LET n     == Len(x)
      meanX == FDiv(Sum(x), FromInt(n))
      meanY == FDiv(Sum(y), FromInt(n))
      xDiff(i) == FSub(x[i], meanX)
      yDiff(i) == FSub(At(y, i), meanY)
      numerator   == Sum([i \in 1..n |-> FMul(xDiff(i), yDiff(i))])
      sumXSquared == Sum([i \in 1..n |-> FMul(xDiff(i), xDiff(i))])
      sumYSquared == Sum([i \in 1..n |-> FMul(yDiff(i), yDiff(i))])
      denominator == FAdd(sumXSquared, sumYSquared)
  IN  IF FEq(denominator, Zero) THEN Zero
      ELSE MathMax(Zero, FDiv(numerator, denominator))

calculateCorrelation(x, y) ==
  LET n     == Len(x)
      meanX == FDiv(Sum(x), FromInt(n))
      meanY == FDiv(Sum(y), FromInt(n))
      xDiff(i) == FSub(x[i], meanX)
      yDiff(i) == FSub(At(y, i), meanY)
      numerator   == Sum([i \in 1..n |-> FMul(xDiff(i), yDiff(i))])
      sumXSquared == Sum([i \in 1..n |-> FMul(xDiff(i), xDiff(i))])
      sumYSquared == Sum([i \in 1..n |-> FMul(yDiff(i), yDiff(i))])
      denominator == MathSqrt(FMul(sumXSquared, sumYSquared))
  IN  IF FEq(denominator, Zero) THEN Zero
      ELSE MathMax(Zero, FDiv(numerator, denominator))

\* sum of cubed deviations / (length * variance^1.5)
Skewness(features, mean, variance) ==
  FDiv(Sum([i \in 1..Len(features) |-> Pow3(FSub(features[i], mean))]),
       FMul(FromInt(Len(features)), Pow15(variance)))

\* 1 / (1 + |d| * k)
MomentSim(d, k) == FDiv(Lit(1, 1), FAdd(Lit(1, 1), FMul(MathAbs(d), k)))

calculateAccurateStructuralSimilarity(f1, f2) ==
  IF Len(f1) # Len(f2) THEN Zero
  ELSE LET mean1 == Mean(f1)
           mean2 == Mean(f2)
           variance1 == Variance(f1, mean1)
           variance2 == Variance(f2, mean2)
           skewness1 == Skewness(f1, mean1, variance1)
           skewness2 == Skewness(f2, mean2, variance2)
           meanSim == MomentSim(FSub(mean1, mean2), Lit(10, 1))
           varSim  == MomentSim(FSub(variance1, variance2), Lit(100, 1))
           skewSim == MomentSim(FSub(skewness1, skewness2), Lit(5, 1))
           correlation == calculateCorrelation(f1, f2)
           structuralSim ==
             FAdd(FAdd(FAdd(FMul(meanSim, Lit(2, 10)), FMul(varSim, Lit(2, 10))),
                       FMul(skewSim, Lit(2, 10))),
                  FMul(correlation, Lit(4, 10)))
       IN  FMul(structuralSim, structuralSim)

----------------------------------------------------------------------------
(* calculateAccurateSSIM *)

\* 0.299 * data[i] + 0.587 * data[i + 1] + 0.114 * data[i + 2]
Gray(px) ==
  FAdd(FAdd(FMul(Lit(299, 1000), FromInt(px[1])), FMul(Lit(587, 1000), FromInt(px[2]))),
       FMul(Lit(114, 1000), FromInt(px[3])))

\* gray1.reduce((sum, val, i) => sum + (val - mean1) * (gray2[i] - mean2), 0) / gray1.length
Covariance(gray1, mean1, gray2, mean2) ==
  FDiv(Sum([i \in 1..Len(gray1) |->
              FMul(FSub(gray1[i], mean1), FSub(At(gray2, i), mean2))]),
       FromInt(Len(gray1)))

\* (k * 255) ** 2
SsimConstant(k) == FMul(FMul(k, Lit(255, 1)), FMul(k, Lit(255, 1)))

\* The SSIM without the clamp to [0, 1].
SsimUnclamped(px1, px2) ==
  LET gray1 == [i \in 1..Len(px1) |-> Gray(px1[i])]
      gray2 == [i \in 1..Len(px1) |-> Gray(px2[i])]
      mean1 == Mean(gray1)
      mean2 == Mean(gray2)
      var1  == Variance(gray1, mean1)
      var2  == Variance(gray2, mean2)
      covar == Covariance(gray1, mean1, gray2, mean2)
      c1    == SsimConstant(Lit(1, 100))
      c2    == SsimConstant(Lit(3, 100))
      numerator   == FMul(FAdd(FMul(FMul(Lit(2, 1), mean1), mean2), c1),
                          FAdd(FMul(Lit(2, 1), covar), c2))
      denominator == FMul(FAdd(FAdd(FMul(mean1, mean1), FMul(mean2, mean2)), c1),
                          FAdd(FAdd(var1, var2), c2))
      ssim        == IF FGt(denominator, Zero) THEN FDiv(numerator, denominator) ELSE Zero
  IN  Pow15(ssim)

\* processImages, once both images have loaded: px1 and px2 are the RGBA
\* pixels that getImageData returns for the two canvases.
SsimOfPixels(px1, px2) ==
  LET gray1 == [i \in 1..Len(px1) |-> Gray(px1[i])]
      gray2 == [i \in 1..Len(px1) |-> Gray(px2[i])]
      mean1 == Mean(gray1)
      mean2 == Mean(gray2)
      var1  == Variance(gray1, mean1)
      var2  == Variance(gray2, mean2)
      covar == Covariance(gray1, mean1, gray2, mean2)
      c1    == SsimConstant(Lit(1, 100))
      c2    == SsimConstant(Lit(3, 100))
      numerator   == FMul(FAdd(FMul(FMul(Lit(2, 1), mean1), mean2), c1),
                          FAdd(FMul(Lit(2, 1), covar), c2))
      denominator == FMul(FAdd(FAdd(FMul(mean1, mean1), FMul(mean2, mean2)), c1),
                          FAdd(FAdd(var1, var2), c2))
      ssim        == IF FGt(denominator, Zero) THEN FDiv(numerator, denominator) ELSE Zero
      clampedSSIM == MathMax(Zero, MathMin(Lit(1, 1), ssim))
  IN  Pow15(clampedSSIM)

\* The value the promise resolves with: 0.1 when a canvas context is
\* missing or an image fires its error event, the SSIM of the pixels when
\* both images have loaded.
calculateAccurateSSIM(px1, px2, bothLoaded) ==
  IF bothLoaded THEN SsimOfPixels(px1, px2) ELSE Lit(1, 10)

----------------------------------------------------------------------------
(* Grading configuration *)

GradeNames == <<"A+", "A", "B", "C", "D", "F">>

Thresholds(ap, a, b, c, d, f) ==
  [g \in {"A+", "A", "B", "C", "D", "F"} |->
     CASE g = "A+" -> ap [] g = "A" -> a [] g = "B" -> b
       [] g = "C" -> c [] g = "D" -> d [] OTHER -> f]

defaultGradingConfig ==
  [thresholds |-> Thresholds(Lit(90, 1), Lit(80, 1), Lit(70, 1),
                             Lit(60, 1), Lit(50, 1), Lit(0, 1)),
   styleAdjustments |-> [cartoon   |-> Lit(105, 100),
                         sketch    |-> Lit(103, 100),
                         realistic |-> Lit(1, 1),
                         abstract  |-> Lit(98, 100)]]

----------------------------------------------------------------------------
(* generateAccurateFeedback *)

OverallFeedback(pct) ==
  IF FGe(pct, Lit(85, 1))
  THEN "Outstanding work! Your drawing is remarkably similar to the reference."
  ELSE IF FGe(pct, Lit(70, 1))
  THEN "Great job! Your drawing captures most key elements effectively."
  ELSE IF FGe(pct, Lit(55, 1))
  THEN "Good effort! You've captured some important similarities."
  ELSE IF FGe(pct, Lit(40, 1))
  THEN "Fair attempt. Focus on matching the main shapes and proportions."
  ELSE IF FGe(pct, Lit(25, 1))
  THEN "Keep practicing! Try to observe the reference more carefully."
  ELSE "This appears quite different from the reference. Study the original more closely."

CosineFeedback(sims) ==
  IF FLt(sims.cosineSimilarity, Lit(3, 10))
  THEN <<"The overall content and subject matter differ significantly from the reference.">>
  ELSE IF FLt(sims.cosineSimilarity, Lit(6, 10))
  THEN <<"Some elements match the reference, but key features are missing or different.">>
  ELSE << >>

SsimFeedback(sims) ==
  IF FLt(sims.ssimScore, Lit(4, 10))
  THEN <<"The visual structure and layout need significant improvement.">>
  ELSE IF FLt(sims.ssimScore, Lit(7, 10))
  THEN <<"Good structural foundation, but details could be more accurate.">>
  ELSE << >>

StructuralFeedback(sims) ==
  IF FLt(sims.structuralSimilarity, Lit(4, 10))
  THEN <<"Focus on matching the basic proportions and spatial relationships.">>
  ELSE << >>

\* The style sentence given from confidence 0.7 on.
StyleFeedbackInclusive(sty) ==
  IF FGe(sty.confidence, Lit(7, 10))
  THEN <<"Nice " \o sty.style \o " style execution.">>
  ELSE << >>

StyleFeedback(sty) ==
  IF FGt(sty.confidence, Lit(7, 10))
  THEN <<"Nice " \o sty.style \o " style execution.">>
  ELSE << >>

\* The feedback without an overall sentence for the lowest band.
FeedbackWithoutLowestBand(sims, sty, pct) ==
  (IF FGe(pct, Lit(25, 1)) THEN <<OverallFeedback(pct)>> ELSE << >>)
     \o CosineFeedback(sims) \o SsimFeedback(sims)
     \o StructuralFeedback(sims) \o StyleFeedback(sty)

generateAccurateFeedback(sims, sty, pct) ==
  <<OverallFeedback(pct)>> \o CosineFeedback(sims)
     \o SsimFeedback(sims) \o StructuralFeedback(sims)
     \o StyleFeedback(sty)

----------------------------------------------------------------------------
(* detectImageStyle *)

\* features.filter(f => Math.abs(f) < 0.001).length / features.length
Sparsity(features) ==
  FDiv(FromInt(Cardinality({ i \in DOMAIN features :
                              FLt(MathAbs(features[i]), Lit(1, 1000)) })),
       FromInt(Len(features)))

\* features.filter(f => Math.abs(f) > 0.05).length / features.length
Complexity(features) ==
  FDiv(FromInt(Cardinality({ i \in DOMAIN features :
                              FGt(MathAbs(features[i]), Lit(5, 100)) })),
       FromInt(Len(features)))

\* Math.max(...features.map(f => Math.abs(f)))
RECURSIVE MaxAbsFirst(_, _)
MaxAbsFirst(features, n) ==
  IF n = 0 THEN Infinity(-1)
  ELSE MathMax(MaxAbsFirst(features, n - 1), MathAbs(features[n]))

\* The classification with the sketch branch taken from sparsity 0.8 on.
DetectWithInclusiveSparsity(features) ==
  LET mean          == Mean(features)
      variance      == Variance(features, mean)
      sparsity      == Sparsity(features)
      complexity    == Complexity(features)
      maxActivation == MaxAbsFirst(features, Len(features))
  IN  IF FGe(sparsity, Lit(8, 10)) /\ FLt(variance, Lit(1, 100))
         /\ FLt(maxActivation, Lit(1, 10))
      THEN [style |-> "sketch", confidence |-> Lit(85, 100)]
      ELSE IF FLt(complexity, Lit(2, 10)) /\ FGt(variance, Lit(5, 100))
              /\ FLt(maxActivation, Lit(3, 10))
      THEN [style |-> "cartoon", confidence |-> Lit(8, 10)]
      ELSE IF FGt(complexity, Lit(5, 10)) /\ FGt(variance, Lit(1, 10))
              /\ FGt(maxActivation, Lit(2, 10))
      THEN [style |-> "realistic", confidence |-> Lit(9, 10)]
      ELSE [style |-> "abstract", confidence |-> Lit(7, 10)]

detectImageStyle(features) ==
  LET mean          == Mean(features)
      variance      == Variance(features, mean)
      sparsity      == Sparsity(features)
      complexity    == Complexity(features)
      maxActivation == MaxAbsFirst(features, Len(features))
  IN  IF FGt(sparsity, Lit(8, 10)) /\ FLt(variance, Lit(1, 100))
         /\ FLt(maxActivation, Lit(1, 10))
      THEN [style |-> "sketch", confidence |-> Lit(85, 100)]
      ELSE IF FLt(complexity, Lit(2, 10)) /\ FGt(variance, Lit(5, 100))
              /\ FLt(maxActivation, Lit(3, 10))
      THEN [style |-> "cartoon", confidence |-> Lit(8, 10)]
      ELSE IF FGt(complexity, Lit(5, 10)) /\ FGt(variance, Lit(1, 10))
              /\ FGt(maxActivation, Lit(2, 10))
      THEN [style |-> "realistic", confidence |-> Lit(9, 10)]
      ELSE [style |-> "abstract", confidence |-> Lit(7, 10)]

----------------------------------------------------------------------------
(* generateEnhancedGrade *)

\* v || 1.0, where v is undefined when the key is not in the table
StyleAdjustment(cfg, sty) ==
  LET adj == cfg.styleAdjustments
  IN  IF sty.style \in DOMAIN adj
         /\ ~IsNaN(adj[sty.style]) /\ adj[sty.style] # Zero
      THEN adj[sty.style]
      ELSE Lit(1, 1)

\* The weighted sum with the statistical term subtracted.
CombinedScoreSubtracting(sims) ==
  FSub(FAdd(FMul(sims.cosineSimilarity, Lit(5, 10)),
            FMul(sims.ssimScore, Lit(35, 100))),
       FMul(sims.structuralSimilarity, Lit(15, 100)))

CombinedScore(sims) ==
  FAdd(FAdd(FMul(sims.cosineSimilarity, Lit(5, 10)),
            FMul(sims.ssimScore, Lit(35, 100))),
       FMul(sims.structuralSimilarity, Lit(15, 100)))

\* The percentage before it is clamped.
AdjustedPercentage(sims, sty, cfg) ==
  FMul(FMul(CombinedScore(sims), Lit(100, 1)),
       StyleAdjustment(cfg, sty))

\* Math.max(0, Math.min(100, percentage))
ClampPercentage(p) == MathMax(Zero, MathMin(Lit(100, 1), p))

\* The chain with the letters of the B and C branches exchanged.
GradeAndColorSwapped(p, thresholds) ==
  IF FGe(p, thresholds["A+"]) THEN [grade |-> "A+", color |-> "bg-green-600"]
  ELSE IF FGe(p, thresholds["A"]) THEN [grade |-> "A", color |-> "bg-green-500"]
  ELSE IF FGe(p, thresholds["B"]) THEN [grade |-> "C", color |-> "bg-orange-500"]
  ELSE IF FGe(p, thresholds["C"]) THEN [grade |-> "B", color |-> "bg-yellow-500"]
  ELSE IF FGe(p, thresholds["D"]) THEN [grade |-> "D", color |-> "bg-red-400"]
  ELSE [grade |-> "F", color |-> "bg-red-600"]

\* The chain with strict comparisons.
GradeAndColorStrict(p, thresholds) ==
  IF FGt(p, thresholds["A+"]) THEN [grade |-> "A+", color |-> "bg-green-600"]
  ELSE IF FGt(p, thresholds["A"]) THEN [grade |-> "A", color |-> "bg-green-500"]
  ELSE IF FGt(p, thresholds["B"]) THEN [grade |-> "B", color |-> "bg-yellow-500"]
  ELSE IF FGt(p, thresholds["C"]) THEN [grade |-> "C", color |-> "bg-orange-500"]
  ELSE IF FGt(p, thresholds["D"]) THEN [grade |-> "D", color |-> "bg-red-400"]
  ELSE [grade |-> "F", color |-> "bg-red-600"]

\* The if / else-if chain over config.thresholds.
GradeAndColor(p, thresholds) ==
  IF FGe(p, thresholds["A+"]) THEN [grade |-> "A+", color |-> "bg-green-600"]
  ELSE IF FGe(p, thresholds["A"]) THEN [grade |-> "A", color |-> "bg-green-500"]
  ELSE IF FGe(p, thresholds["B"]) THEN [grade |-> "B", color |-> "bg-yellow-500"]
  ELSE IF FGe(p, thresholds["C"]) THEN [grade |-> "C", color |-> "bg-orange-500"]
  ELSE IF FGe(p, thresholds["D"]) THEN [grade |-> "D", color |-> "bg-red-400"]
  ELSE [grade |-> "F", color |-> "bg-red-600"]

generateEnhancedGrade(sims, sty, cfg) ==
  LET p  == ClampPercentage(AdjustedPercentage(sims, sty, cfg))
      gc == GradeAndColor(p, cfg.thresholds)
  IN  [similarity      |-> MathRound(p),
       ssimScore       |-> MathRound(FMul(sims.ssimScore, Lit(100, 1))),
       grade           |-> gc.grade,
       color           |-> gc.color,
       style           |-> sty.style,
       styleConfidence |-> sty.confidence,
       feedback        |-> generateAccurateFeedback(sims, sty, p)]

----------------------------------------------------------------------------
(* Inputs *)

Scores == {NaN, Lit(-1, 2), Lit(3, 10), Lit(1, 2), Lit(897, 1000), Lit(1, 1), Lit(3, 2)}

\* NaN is a value of the statistical measure only (Skewness of a vector whose
\* entries are all equal is 0 / 0).
SimilarityInputs ==
  [cosineSimilarity : Scores \ {NaN}, ssimScore : Scores \ {NaN},
   structuralSimilarity : Scores]

\* The four results of detectImageStyle, and three other values of the
\* parameter type { style: string; confidence: number }.
StyleInputs ==
  { [style |-> "sketch",    confidence |-> Lit(85, 100)],
    [style |-> "cartoon",   confidence |-> Lit(8, 10)],
    [style |-> "realistic", confidence |-> Lit(9, 10)],
    [style |-> "abstract",  confidence |-> Lit(7, 10)],
    [style |-> "cartoon",   confidence |-> NaN],
    [style |-> "",          confidence |-> Lit(9, 10)],
    [style |-> "watercolor", confidence |-> Lit(1, 2)] }

ThresholdInputs ==
  { defaultGradingConfig.thresholds,
    Thresholds(Zero, Zero, Zero, Zero, Zero, Zero),
    Thresholds(Lit(50, 1), Lit(90, 1), Lit(20, 1), Lit(95, 1), Zero, Lit(70, 1)),
    Thresholds(Lit(150, 1), NaN, Lit(897, 10), Lit(-5, 1), Lit(60, 1), Zero) }

AdjustmentInputs ==
  { defaultGradingConfig.styleAdjustments,
    [cartoon |-> Lit(2, 1), sketch |-> Zero, realistic |-> Lit(-1, 1), abstract |-> NaN] }

ConfigInputs == [thresholds : ThresholdInputs, styleAdjustments : AdjustmentInputs]

\* Embedding components, and the longest embedding considered.
FeatureValues == {Zero, Lit(1, 1)}

MaxLen == 3

RECURSIVE SeqsOfLen(_, _)
SeqsOfLen(S, n) ==
  IF n = 0 THEN { << >> }
  ELSE { Append(f, v) : f \in SeqsOfLen(S, n - 1), v \in S }

FeatureInputs == UNION { SeqsOfLen(FeatureValues, n) : n \in 1..MaxLen }

\* RGBA pixels, and the number of pixels of a canvas (size * size in the code).
PixelValues == { <<0, 0, 0, 255>>, <<255, 128, 0, 255>> }

NumPixels == 1

ImageInputs == SeqsOfLen(PixelValues, NumPixels)

\* The four values of the return statements of detectImageStyle.
DetectedStyles ==
  { [style |-> "sketch",    confidence |-> Lit(85, 100)],
    [style |-> "cartoon",   confidence |-> Lit(8, 10)],
    [style |-> "realistic", confidence |-> Lit(9, 10)],
    [style |-> "abstract",  confidence |-> Lit(7, 10)] }

\* Scores and styles of two successive comparisons.
RegradeScores ==
  { Lit(3, 10), Lit(1, 2), Lit(6, 10), Lit(7, 10), Lit(8, 10), Lit(897, 1000),
    Lit(1, 1), Lit(3, 2) }

RegradeSimilarities ==
  { [cosineSimilarity |-> v, ssimScore |-> v, structuralSimilarity |-> v] :
      v \in RegradeScores }

NoResult == [grade |-> "none"]

NoFeatures == << >>

NoStyle == [style |-> "none", confidence |-> NaN]

----------------------------------------------------------------------------
(* calculateEnhancedSimilarity followed by generateEnhancedGrade, as        *)
(* compareImages calls them                                                *)

Pending == [state |-> "pending", value |-> NaN, calls |-> 0]

HeatIdle ==
  /\ backing = "premultiplied"
  /\ sources = << << >>, << >> >>
  /\ diffData = << >>

\* The page as first rendered: no image, no model yet, no result.
InitialPage ==
  [referenceImage |-> 0, studentImage |-> 0, model |-> FALSE,
   isLoading |-> FALSE, result |-> NoResult, modelLoading |-> TRUE,
   heatmapUrl |-> FALSE]

\* The images a user can select; 0 stands for null.
ImageIds == {1, 2}

ResourcesIdle ==
  /\ tensors = << >>
  /\ call = ""
  /\ arrival = << >>

PageIdle ==
  /\ page = InitialPage
  /\ before = InitialPage
  /\ inFlight = 0
  /\ embeddings = [id \in ImageIds |-> NoFeatures]

CallsIdle ==
  /\ HeatIdle
  /\ ResourcesIdle
  /\ PageIdle
  /\ correlationOut = NaN
  /\ context = TRUE
  /\ images = <<"idle", "idle">>
  /\ loadedCount = 0
  /\ extracts = <<"pending", "pending">>
  /\ promise = Pending

Idle ==
  /\ features1 = NoFeatures
  /\ features2 = NoFeatures
  /\ cosineSim = NaN
  /\ data1 = << >>
  /\ data2 = << >>
  /\ loaded = FALSE
  /\ CallsIdle

InitCompare ==
  /\ phase = "extract"
  /\ Idle
  /\ similarities = NoResult
  /\ style = NoStyle
  /\ config = defaultGradingConfig
  /\ enhancedResult = NoResult
  /\ percentage = NaN
  /\ previous = NoResult

\* Promise.all over the two extractFeatures calls resolves with the
\* embeddings; the cosine similarity is computed and the SSIM is started.
FeaturesExtracted ==
  /\ phase = "extract"
  /\ \E f1 \in FeatureInputs, f2 \in FeatureInputs :
       /\ features1' = f1
       /\ features2' = f2
       /\ cosineSim' = calculateAccurateCosineSimilarity(f1, f2)
  /\ phase' = "ssim"
  /\ UNCHANGED <<data1, data2, loaded, similarities, style, config,
                 enhancedResult, percentage, previous>>
  /\ UNCHANGED callVars

\* The scores that calculateEnhancedSimilarity returns once the SSIM
\* promise has resolved with ssimScore.
SimilaritiesWith(ssimScore, structuralSim) ==
  [cosineSimilarity     |-> cosineSim,
   ssimScore            |-> ssimScore,
   structuralSimilarity |-> structuralSim]

\* Both images load: the SSIM promise resolves with the computed value.
SsimComputed ==
  /\ phase = "ssim"
  /\ LET structuralSim == calculateAccurateStructuralSimilarity(features1, features2)
     IN  \E px1 \in ImageInputs, px2 \in ImageInputs :
           /\ data1' = px1
           /\ data2' = px2
           /\ loaded' = TRUE
           /\ similarities' =
                SimilaritiesWith(calculateAccurateSSIM(px1, px2, TRUE), structuralSim)
  /\ phase' = "scored"
  /\ UNCHANGED <<features1, features2, cosineSim, style, config,
                 enhancedResult, percentage, previous>>
  /\ UNCHANGED callVars

\* An image fails to load or a canvas has no 2D context: the SSIM promise
\* resolves with the default.
SsimDefaulted ==
  /\ phase = "ssim"
  /\ loaded' = FALSE
  /\ similarities' =
       SimilaritiesWith(calculateAccurateSSIM(data1, data2, FALSE),
                        calculateAccurateStructuralSimilarity(features1, features2))
  /\ phase' = "scored"
  /\ UNCHANGED <<features1, features2, cosineSim, data1, data2, style, config,
                 enhancedResult, percentage, previous>>
  /\ UNCHANGED callVars

\* compareImages: the features of the reference image are extracted again
\* and const style = detectImageStyle(features)
StyleDetected ==
  /\ phase = "scored"
  /\ style' = detectImageStyle(features1)
  /\ phase' = "styled"
  /\ UNCHANGED <<features1, features2, cosineSim, data1, data2, loaded,
                 similarities, config, enhancedResult, percentage, previous>>
  /\ UNCHANGED callVars

\* generateEnhancedGrade(similarities, style, config)
Grade ==
  /\ phase = "styled"
  /\ enhancedResult' = generateEnhancedGrade(similarities, style, config)
  /\ percentage' = ClampPercentage(AdjustedPercentage(similarities, style, config))
  /\ phase' = "graded"
  /\ UNCHANGED <<features1, features2, cosineSim, data1, data2, loaded,
                 similarities, style, config, previous>>
  /\ UNCHANGED callVars

NextCompare ==
  FeaturesExtracted \/ SsimComputed \/ SsimDefaulted \/ StyleDetected \/ Grade

SpecCompare == InitCompare /\ [][NextCompare]_vars

----------------------------------------------------------------------------
(* One call of generateEnhancedGrade with any scores, style and config *)

InitGrade ==
  /\ phase = "styled"
  /\ Idle
  /\ similarities \in SimilarityInputs
  /\ style \in StyleInputs
  /\ config \in ConfigInputs
  /\ enhancedResult = NoResult
  /\ percentage = NaN
  /\ previous = NoResult

NextGrade == Grade

SpecGrade == InitGrade /\ [][NextGrade]_vars

----------------------------------------------------------------------------
(* Two calls of generateEnhancedGrade with the same config *)

InitRegrade ==
  /\ phase = "styled"
  /\ Idle
  /\ similarities \in RegradeSimilarities
  /\ style \in DetectedStyles
  /\ config \in ConfigInputs
  /\ enhancedResult = NoResult
  /\ percentage = NaN
  /\ previous = NoResult

\* The caller keeps the first result and grades other scores.
Resubmit ==
  /\ phase = "graded"
  /\ previous = NoResult
  /\ previous' = [grade      |-> enhancedResult.grade,
                  similarity |-> enhancedResult.similarity,
                  percentage |-> percentage]
  /\ similarities' \in RegradeSimilarities
  /\ style' \in DetectedStyles
  /\ enhancedResult' = NoResult
  /\ percentage' = NaN
  /\ phase' = "styled"
  /\ UNCHANGED <<features1, features2, cosineSim, data1, data2, loaded, config>>
  /\ UNCHANGED callVars

NextRegrade == Grade \/ Resubmit

SpecRegrade == InitRegrade /\ [][NextRegrade]_vars

----------------------------------------------------------------------------
(* One call of detectImageStyle with any embedding *)

StyleLabels == {"sketch", "cartoon", "realistic", "abstract"}

\* Components below 0.001, between 0.05 and 0.1, between 0.2 and 0.3, and
\* above 0.3, of either sign.
StyleValues ==
  { Zero, Lit(1, 2000), Lit(6, 100), Lit(29, 100), Lit(1, 1), Lit(-29, 100) }

MaxStyleLen == 6

\* k components a followed by n - k components b
Runs(a, k, b, n) == [i \in 1..n |-> IF i <= k THEN a ELSE b]

StyleFeatureInputs ==
  { Runs(a, k, b, n) : a \in StyleValues, b \in StyleValues,
                       k \in 1..MaxStyleLen, n \in 1..MaxStyleLen }

InitStyle ==
  /\ phase = "features"
  /\ features1 \in { f \in StyleFeatureInputs : Len(f) > 0 }
  /\ features2 = NoFeatures
  /\ cosineSim = NaN
  /\ data1 = << >>
  /\ data2 = << >>
  /\ loaded = FALSE
  /\ CallsIdle
  /\ similarities = NoResult
  /\ style = NoStyle
  /\ config = defaultGradingConfig
  /\ enhancedResult = NoResult
  /\ percentage = NaN
  /\ previous = NoResult

\* const style = detectImageStyle(features)
DetectStyle ==
  /\ phase = "features"
  /\ style' = detectImageStyle(features1)
  /\ phase' = "detected"
  /\ UNCHANGED <<features1, features2, cosineSim, data1, data2, loaded,
                 similarities, config, enhancedResult, percentage, previous>>
  /\ UNCHANGED callVars

NextStyle == DetectStyle

SpecStyle == InitStyle /\ [][NextStyle]_vars

----------------------------------------------------------------------------
(* Properties *)

One == Lit(1, 1)

Hundred == Lit(100, 1)

\* generateEnhancedGrade has returned
Graded == phase = "graded"

\* calculateEnhancedSimilarity has returned
Scored == similarities # NoResult

\* 1 for "A+", 2 for "A", ... 6 for "F"
GradeRank(g) == CHOOSE i \in 1..6 : GradeNames[i] = g

InUnitInterval(v) == IsFinite(v) /\ FGe(v, Zero) /\ FLe(v, One)

NotAllEqual(f) == \E i, j \in DOMAIN f : f[i] # f[j]

OverallSentences ==
  { "Outstanding work! Your drawing is remarkably similar to the reference.",
    "Great job! Your drawing captures most key elements effectively.",
    "Good effort! You've captured some important similarities.",
    "Fair attempt. Focus on matching the main shapes and proportions.",
    "Keep practicing! Try to observe the reference more carefully.",
    "This appears quite different from the reference. Study the original more closely." }

CosineSentences ==
  { "The overall content and subject matter differ significantly from the reference.",
    "Some elements match the reference, but key features are missing or different." }

SsimSentences ==
  { "The visual structure and layout need significant improvement.",
    "Good structural foundation, but details could be more accurate." }

StatisticalSentences ==
  { "Focus on matching the basic proportions and spatial relationships." }

StyleSentence == "Nice " \o style.style \o " style execution."

\* C1: for every triple of scores, style and config, the similarity
\* percentage returned by generateEnhancedGrade is an integer in [0,100].
C1_SimilarityIsPercentage ==
  Graded => /\ IsInteger(enhancedResult.similarity)
            /\ FGe(enhancedResult.similarity, Zero)
            /\ FLe(enhancedResult.similarity, Hundred)

\* C2: for equal-length embeddings and any two images, each of the three
\* values returned by calculateEnhancedSimilarity is a finite number in [0,1].
C2_ScoresInUnitInterval ==
  (Scored /\ Len(features1) = Len(features2)) =>
     /\ InUnitInterval(similarities.cosineSimilarity)
     /\ InUnitInterval(similarities.ssimScore)
     /\ InUnitInterval(similarities.structuralSimilarity)

\* C3: under one config, a comparison with a higher percentage never gets a
\* strictly lower letter than a comparison with a lower percentage.
C3_GradeMonotonic ==
  (Graded /\ previous # NoResult) =>
     /\ (FGt(percentage, previous.percentage) \/
         FGt(enhancedResult.similarity, previous.similarity))
          => GradeRank(enhancedResult.grade) <= GradeRank(previous.grade)
     /\ (FLt(percentage, previous.percentage) \/
         FLt(enhancedResult.similarity, previous.similarity))
          => GradeRank(enhancedResult.grade) >= GradeRank(previous.grade)

C3_Witness ==
  /\ Graded
  /\ previous # NoResult
  /\ FGt(percentage, previous.percentage)
  /\ GradeRank(enhancedResult.grade) < GradeRank(previous.grade)

\* C4: the grade is the first of A+, A, B, C, D whose threshold the clamped
\* percentage meets or exceeds, F when there is none; the colour is a
\* function of the grade.
C4_FirstThresholdMet ==
  Graded =>
    LET met == { i \in 1..5 : FGe(percentage, config.thresholds[GradeNames[i]]) }
        g   == enhancedResult.grade
    IN  /\ percentage = ClampPercentage(AdjustedPercentage(similarities, style, config))
        /\ met = {} => g = "F"
        /\ met # {} => /\ GradeRank(g) \in met
                       /\ \A i \in met : GradeRank(g) <= i
        /\ enhancedResult.color =
             CASE g = "A+" -> "bg-green-600" [] g = "A" -> "bg-green-500"
               [] g = "B" -> "bg-yellow-500" [] g = "C" -> "bg-orange-500"
               [] g = "D" -> "bg-red-400" [] OTHER -> "bg-red-600"

C4_Witness ==
  /\ Graded
  /\ enhancedResult.grade = "B"
  /\ FGe(percentage, config.thresholds["C"])
  /\ ~FGe(percentage, config.thresholds["A"])
  /\ ~FGe(percentage, config.thresholds["A+"])

\* C5: under the default config the grade agrees with the displayed scale
\* applied to the reported similarity: A+ iff 90-100, A iff 80-89, B iff
\* 70-79, C iff 60-69, D iff 50-59, F iff below 50.
C5_GradeMatchesDisplayedScale ==
  (Graded /\ config = defaultGradingConfig) =>
    LET sim == enhancedResult.similarity
        g   == enhancedResult.grade
    IN  /\ g = "A+" <=> (FGe(sim, Lit(90, 1)) /\ FLe(sim, Lit(100, 1)))
        /\ g = "A"  <=> (FGe(sim, Lit(80, 1)) /\ FLe(sim, Lit(89, 1)))
        /\ g = "B"  <=> (FGe(sim, Lit(70, 1)) /\ FLe(sim, Lit(79, 1)))
        /\ g = "C"  <=> (FGe(sim, Lit(60, 1)) /\ FLe(sim, Lit(69, 1)))
        /\ g = "D"  <=> (FGe(sim, Lit(50, 1)) /\ FLe(sim, Lit(59, 1)))
        /\ g = "F"  <=> FLt(sim, Lit(50, 1))

\* C6: with every threshold 0 the grade is "A+", whatever the scores and
\* the style.
C6_ZeroThresholdsGiveAPlus ==
  (Graded /\ \A i \in 1..6 : config.thresholds[GradeNames[i]] = Zero)
     => enhancedResult.grade = "A+"

\* C7: the feedback list holds the overall-performance sentence and at
\* most one style sentence.
C7_FeedbackNonEmpty ==
  Graded =>
    LET fb == enhancedResult.feedback
    IN  /\ Len(fb) >= 1
        /\ \E i \in DOMAIN fb : fb[i] \in OverallSentences
        /\ Cardinality({ i \in DOMAIN fb : fb[i] = StyleSentence }) <= 1

C7_Witness == Graded /\ Len(enhancedResult.feedback) = 1

\* C8: one overall sentence first, then at most one sentence each for the
\* cosine, SSIM and statistical metrics in that order, then the style
\* sentence exactly when style.confidence > 0.7; no sentence is empty and
\* none occurs twice.
C8_FeedbackOrder ==
  Graded =>
    LET fb == enhancedResult.feedback
        st == IF FGt(style.confidence, Lit(7, 10)) THEN 1 ELSE 0
    IN  /\ \E c \in 0..1, v \in 0..1, t \in 0..1 :
             /\ Len(fb) = 1 + c + v + t + st
             /\ fb[1] \in OverallSentences
             /\ c = 1 => fb[2] \in CosineSentences
             /\ v = 1 => fb[2 + c] \in SsimSentences
             /\ t = 1 => fb[2 + c + v] \in StatisticalSentences
             /\ st = 1 => fb[Len(fb)] = StyleSentence
        /\ \A i \in DOMAIN fb : Len(fb[i]) > 0
        /\ \A i, j \in DOMAIN fb : fb[i] = fb[j] => i = j

C8_Witness ==
  /\ Graded
  /\ Len(enhancedResult.feedback) = 5
  /\ enhancedResult.feedback[5] = StyleSentence

\* C9: the cosine and the statistical similarity are exactly 0 when the two
\* vectors differ in length.
C9_ZeroOnLengthMismatch ==
  Len(features1) # Len(features2) =>
     /\ phase # "extract" => cosineSim = Zero
     /\ Scored => /\ similarities.cosineSimilarity = Zero
                  /\ similarities.structuralSimilarity = Zero

C9_Witness ==
  /\ Scored
  /\ Len(features1) = 2
  /\ Len(features2) = 3
  /\ NotAllEqual(features1)
  /\ NotAllEqual(features2)

Tolerance == Fin(2^(Prec - 1), 4 - 2 * (Prec - 1))

IdenticalImages == features1 = features2 /\ data1 = data2

ApproximatelyOne(v) == FGe(v, Lit(99, 100)) /\ FLe(v, Lit(101, 100))

\* The scores are about 1, the percentage is at least 95, the grade is A+.
NearPerfect ==
  /\ ApproximatelyOne(similarities.cosineSimilarity)
  /\ ApproximatelyOne(similarities.ssimScore)
  /\ ApproximatelyOne(similarities.structuralSimilarity)
  /\ FGe(percentage, Lit(95, 1))
  /\ FGe(enhancedResult.similarity, Lit(95, 1))
  /\ enhancedResult.grade = "A+"

Detected == phase = "detected"

IsSketch(f) ==
  /\ FGt(Sparsity(f), Lit(8, 10))
  /\ FLt(Variance(f, Mean(f)), Lit(1, 100))
  /\ FLt(MaxAbsFirst(f, Len(f)), Lit(1, 10))

IsCartoon(f) ==
  /\ FLt(Complexity(f), Lit(2, 10))
  /\ FGt(Variance(f, Mean(f)), Lit(5, 100))
  /\ FLt(MaxAbsFirst(f, Len(f)), Lit(3, 10))

IsRealistic(f) ==
  /\ FGt(Complexity(f), Lit(5, 10))
  /\ FGt(Variance(f, Mean(f)), Lit(1, 10))
  /\ FGt(MaxAbsFirst(f, Len(f)), Lit(2, 10))

ConfidenceOf(label) ==
  CASE label = "sketch"    -> Lit(85, 100)
    [] label = "cartoon"   -> Lit(8, 10)
    [] label = "realistic" -> Lit(9, 10)
    [] label = "abstract"  -> Lit(7, 10)

\* C12: detectImageStyle returns the first of sketch, cartoon, realistic
\* whose condition the vector meets, abstract when it meets none, with the
\* confidence that belongs to the label; a vector with sparsity > 0.8,
\* variance < 0.01 and maximum absolute component < 0.1 is a sketch with
\* confidence 0.85.
C12_FirstMatchingStyle ==
  Detected =>
    /\ style.style = (IF IsSketch(features1) THEN "sketch"
                      ELSE IF IsCartoon(features1) THEN "cartoon"
                      ELSE IF IsRealistic(features1) THEN "realistic"
                      ELSE "abstract")
    /\ style.style \in StyleLabels
    /\ style.confidence = ConfidenceOf(style.style)
    /\ IsSketch(features1) =>
         style = [style |-> "sketch", confidence |-> Lit(85, 100)]

\* A vector with a nonzero component that is a sketch.
C12_Witness ==
  /\ Detected
  /\ IsSketch(features1)
  /\ NotAllEqual(features1)
  /\ style.style = "sketch"

\* C18: for each of the four labels there is an embedding that
\* detectImageStyle classifies with that label.
C18_EveryLabelDetected ==
  Detected =>
    \A label \in StyleLabels :
      \E f \in StyleFeatureInputs : detectImageStyle(f).style = label


\* C17: the percentage is 100 x (0.5 cosine + 0.35 SSIM + 0.15 statistical)
\* times the multiplier that the config gives for the style label (clamped
\* afterwards), whatever value the caller supplied for that multiplier; the
\* default multipliers are cartoon 1.05, sketch 1.03, realistic 1.0,
\* abstract 0.98.
C17_PercentageUsesConfiguredMultiplier ==
  /\ defaultGradingConfig.styleAdjustments =
       [cartoon   |-> Lit(105, 100), sketch   |-> Lit(103, 100),
        realistic |-> Lit(1, 1),     abstract |-> Lit(98, 100)]
  /\ (Graded /\ style.style \in DOMAIN config.styleAdjustments) =>
       percentage =
         ClampPercentage(
           FMul(FMul(FAdd(FAdd(FMul(similarities.cosineSimilarity, Lit(5, 10)),
                               FMul(similarities.ssimScore, Lit(35, 100))),
                          FMul(similarities.structuralSimilarity, Lit(15, 100))),
                     Hundred),
                config.styleAdjustments[style.style]))

-----------------------------------------------------------------------------
(* calculateAccurateCosineSimilarity and calculateCorrelation called on    *)
(* two embeddings of the same length                                       *)

VectorValues == { Zero, Lit(1, 10), Lit(1, 1) }

VectorInputs == UNION { SeqsOfLen(VectorValues, n) : n \in 1..MaxLen }

InitVectors ==
  /\ phase = "vectors"
  /\ features1 \in VectorInputs
  /\ features2 \in { f \in VectorInputs : Len(f) = Len(features1) }
  /\ cosineSim = NaN
  /\ data1 = << >>
  /\ data2 = << >>
  /\ loaded = FALSE
  /\ CallsIdle
  /\ similarities = NoResult
  /\ style = NoStyle
  /\ config = defaultGradingConfig
  /\ enhancedResult = NoResult
  /\ percentage = NaN
  /\ previous = NoResult

Correlate ==
  /\ phase = "vectors"
  /\ cosineSim' = calculateAccurateCosineSimilarity(features1, features2)
  /\ correlationOut' = calculateCorrelation(features1, features2)
  /\ phase' = "correlated"
  /\ UNCHANGED <<features1, features2, data1, data2, loaded, similarities,
                 style, config, enhancedResult, percentage, previous>>
  /\ UNCHANGED <<context, images, loadedCount, extracts, promise, heatVars, resourceVars>>
  /\ UNCHANGED pageVars

NextVectors == Correlate

SpecVectors == InitVectors /\ [][NextVectors]_vars

\* Every entry of the vector is the same number.
IsConstantVector(features) ==
  \A i \in 1..Len(features) : features[i] = features[1]

\* C19: calculateAccurateCosineSimilarity and calculateCorrelation return
\* exactly 0 whenever one of the two vectors has zero variance, that is, is
\* a constant vector (the all-zero vector included).
C19_ZeroForConstantVector ==
  (phase = "correlated" /\ (IsConstantVector(features1) \/ IsConstantVector(features2)))
    => (cosineSim = Zero /\ correlationOut = Zero)

-----------------------------------------------------------------------------
(* calculateAccurateSSIM, event by event *)

\* The number of pixels of the two canvases in this section.
SsimPixels == 2

SsimPixelValues ==
  PixelValues \cup { <<255, 255, 255, 255>>, <<10, 200, 30, 255>> }

SsimImageInputs == SeqsOfLen(SsimPixelValues, SsimPixels)

\* resolve(v) and reject(): only the first call settles the promise.
Resolve(p, v) ==
  IF p.state = "pending"
    THEN [state |-> "fulfilled", value |-> v, calls |-> p.calls + 1]
    ELSE [p EXCEPT !.calls = p.calls + 1]

Reject(p) ==
  IF p.state = "pending"
    THEN [state |-> "rejected", value |-> NaN, calls |-> p.calls + 1]
    ELSE [p EXCEPT !.calls = p.calls + 1]

\* The variables that the calls followed event by event leave alone.
scoreVars == <<features1, features2, cosineSim, similarities, style, config,
               enhancedResult, percentage, previous, correlationOut, extracts,
               heatVars, resourceVars>>

InitSsim ==
  /\ phase = "ssim-call"
  /\ features1 = NoFeatures
  /\ features2 = NoFeatures
  /\ cosineSim = NaN
  /\ data1 = << >>
  /\ data2 = << >>
  /\ loaded = FALSE
  /\ correlationOut = NaN
  /\ context \in BOOLEAN
  /\ images = <<"idle", "idle">>
  /\ loadedCount = 0
  /\ extracts = <<"pending", "pending">>
  /\ promise = Pending
  /\ PageIdle
  /\ HeatIdle
  /\ ResourcesIdle
  /\ similarities = NoResult
  /\ style = NoStyle
  /\ config = defaultGradingConfig
  /\ enhancedResult = NoResult
  /\ percentage = NaN
  /\ previous = NoResult

\* The executor: without a context resolve(0.1) and return, otherwise the
\* handlers are set and both images start loading.
SsimStart ==
  /\ phase = "ssim-call"
  /\ IF ~context
       THEN /\ promise' = Resolve(promise, Lit(1, 10))
            /\ phase' = "ssim-returned"
            /\ UNCHANGED images
       ELSE /\ images' = <<"pending", "pending">>
            /\ phase' = "ssim-loading"
            /\ UNCHANGED promise
  /\ UNCHANGED <<data1, data2, loaded, loadedCount, context>>
  /\ UNCHANGED scoreVars
  /\ UNCHANGED pageVars

\* img.onload = processImages
SsimImageLoaded(i) ==
  /\ phase = "ssim-loading"
  /\ images[i] = "pending"
  /\ images' = [images EXCEPT ![i] = "loaded"]
  /\ loadedCount' = loadedCount + 1
  /\ IF loadedCount + 1 = 2
       THEN \E px1 \in SsimImageInputs, px2 \in SsimImageInputs :
              /\ data1' = px1
              /\ data2' = px2
              /\ loaded' = TRUE
              /\ promise' = Resolve(promise, calculateAccurateSSIM(px1, px2, TRUE))
       ELSE UNCHANGED <<data1, data2, loaded, promise>>
  /\ UNCHANGED <<phase, context>>
  /\ UNCHANGED scoreVars
  /\ UNCHANGED pageVars

\* img.onerror = () => resolve(0.1)
SsimImageError(i) ==
  /\ phase = "ssim-loading"
  /\ images[i] = "pending"
  /\ images' = [images EXCEPT ![i] = "error"]
  /\ promise' = Resolve(promise, calculateAccurateSSIM(data1, data2, FALSE))
  /\ UNCHANGED <<phase, context, data1, data2, loaded, loadedCount>>
  /\ UNCHANGED scoreVars
  /\ UNCHANGED pageVars

NextSsim ==
  \/ SsimStart
  \/ \E i \in 1..2 : SsimImageLoaded(i)
  \/ \E i \in 1..2 : SsimImageError(i)

SpecSsim == InitSsim /\ [][NextSsim]_vars

SsimCalled == phase \in {"ssim-returned", "ssim-loading"}

ErrorFired == \E i \in 1..2 : images[i] = "error"

\* C13: calculateAccurateSSIM never rejects; without a 2D context, or once
\* an image has fired its error event, the promise is resolved with 0.1;
\* otherwise it stays pending until the second image has loaded and is then
\* resolved, by the only call of resolve, with a value in [0,1].
C13_SsimFailsSoft ==
  /\ promise.state # "rejected"
  /\ (phase = "ssim-returned" /\ ~context)
       => (promise.state = "fulfilled" /\ promise.value = Lit(1, 10))
  /\ (SsimCalled /\ ErrorFired)
       => (promise.state = "fulfilled" /\ promise.value = Lit(1, 10))
  /\ (SsimCalled /\ context /\ ~ErrorFired)
       => IF loadedCount = 2
            THEN /\ promise.state = "fulfilled"
                 /\ promise.calls = 1
                 /\ InUnitInterval(promise.value)
            ELSE promise.state = "pending"

\* Both images have loaded and the promise is resolved with a score
\* strictly between 0 and 1.
C13_Witness ==
  /\ phase = "ssim-loading"
  /\ loadedCount = 2
  /\ promise.state = "fulfilled"
  /\ FGt(promise.value, Zero)
  /\ FLt(promise.value, Lit(1, 1))

-----------------------------------------------------------------------------
(* calculateEnhancedSimilarity with the two extractFeatures calls, event   *)
(* by event                                                                *)

\* Promise.all over the extractFeatures promises that are collected.
PromiseAllSettledOf(ps) ==
  IF \A i \in DOMAIN ps : ps[i] # "pending" THEN "fulfilled" ELSE "pending"

\* Promise.all: rejected as soon as one promise is, fulfilled when all are.
PromiseAll(ps) ==
  IF \E i \in DOMAIN ps : ps[i] = "rejected" THEN "rejected"
  ELSE IF \A i \in DOMAIN ps : ps[i] = "fulfilled" THEN "fulfilled"
  ELSE "pending"

\* The call: both extractFeatures executors have run, the images load.
InitEnhanced ==
  /\ phase = "extracting"
  /\ features1 = NoFeatures
  /\ features2 = NoFeatures
  /\ cosineSim = NaN
  /\ data1 = << >>
  /\ data2 = << >>
  /\ loaded = FALSE
  /\ correlationOut = NaN
  /\ context = TRUE
  /\ images = <<"pending", "pending">>
  /\ loadedCount = 0
  /\ extracts = <<"pending", "pending">>
  /\ promise = Pending
  /\ PageIdle
  /\ HeatIdle
  /\ ResourcesIdle
  /\ similarities = NoResult
  /\ style = NoStyle
  /\ config = defaultGradingConfig
  /\ enhancedResult = NoResult
  /\ percentage = NaN
  /\ previous = NoResult

\* The continuation of await Promise.all([...]): the rejection is thrown
\* out of the function, the embeddings give the cosine similarity and the
\* SSIM is awaited.
AwaitExtracts ==
  LET all == PromiseAll(extracts')
  IN  IF phase = "extracting" /\ all = "rejected"
        THEN /\ promise' = Reject(promise)
             /\ phase' = "thrown"
             /\ UNCHANGED cosineSim
      ELSE IF phase = "extracting" /\ all = "fulfilled"
        THEN /\ cosineSim' = calculateAccurateCosineSimilarity(features1', features2')
             /\ phase' = "ssim-await"
             /\ UNCHANGED promise
      ELSE UNCHANGED <<promise, phase, cosineSim>>

\* extractFeatures, img.onload: model.infer returns the embedding and the
\* promise is resolved with it, or something in the try block throws and
\* the promise is rejected.
ExtractImageLoaded(i) ==
  /\ images[i] = "pending"
  /\ extracts[i] = "pending"
  /\ images' = [images EXCEPT ![i] = "loaded"]
  /\ \/ /\ \E f \in FeatureInputs :
             /\ features1' = IF i = 1 THEN f ELSE features1
             /\ features2' = IF i = 2 THEN f ELSE features2
          /\ extracts' = [extracts EXCEPT ![i] = "fulfilled"]
     \/ /\ extracts' = [extracts EXCEPT ![i] = "rejected"]
        /\ UNCHANGED <<features1, features2>>
  /\ AwaitExtracts
  /\ UNCHANGED <<data1, data2, loaded, similarities, style, config, enhancedResult,
                 percentage, previous, correlationOut, context, loadedCount,
                 heatVars, resourceVars>>
  /\ UNCHANGED pageVars

\* extractFeatures, img.onerror = reject
ExtractImageError(i) ==
  /\ images[i] = "pending"
  /\ extracts[i] = "pending"
  /\ images' = [images EXCEPT ![i] = "error"]
  /\ extracts' = [extracts EXCEPT ![i] = "rejected"]
  /\ UNCHANGED <<features1, features2>>
  /\ AwaitExtracts
  /\ UNCHANGED <<data1, data2, loaded, similarities, style, config, enhancedResult,
                 percentage, previous, correlationOut, context, loadedCount,
                 heatVars, resourceVars>>
  /\ UNCHANGED pageVars

\* The SSIM promise resolves, with the value for the loaded pixels or with
\* the default; the structural similarity is computed and the scores are
\* returned.
EnhancedReturned ==
  /\ phase = "ssim-await"
  /\ \/ \E px1 \in ImageInputs, px2 \in ImageInputs :
          /\ data1' = px1
          /\ data2' = px2
          /\ loaded' = TRUE
          /\ similarities' =
               SimilaritiesWith(calculateAccurateSSIM(px1, px2, TRUE),
                                calculateAccurateStructuralSimilarity(features1, features2))
     \/ /\ similarities' =
             SimilaritiesWith(calculateAccurateSSIM(data1, data2, FALSE),
                              calculateAccurateStructuralSimilarity(features1, features2))
        /\ UNCHANGED <<data1, data2, loaded>>
  /\ promise' = Resolve(promise, NaN)
  /\ phase' = "returned"
  /\ UNCHANGED <<features1, features2, cosineSim, style, config, enhancedResult,
                 percentage, previous, correlationOut, context, images,
                 loadedCount, extracts, heatVars, resourceVars>>
  /\ UNCHANGED pageVars

NextEnhanced ==
  \/ \E i \in 1..2 : ExtractImageLoaded(i)
  \/ \E i \in 1..2 : ExtractImageError(i)
  \/ EnhancedReturned

SpecEnhanced == InitEnhanced /\ [][NextEnhanced]_vars

ExtractionFailed == \E i \in 1..2 : extracts[i] = "rejected"

\* C14: as soon as the feature extraction of either image has failed,
\* calculateEnhancedSimilarity is rejected and returns no scores, whatever
\* the other extraction does afterwards; scores are returned only when both
\* extractions succeeded, and are computed from both embeddings.
C14_RejectsWhenExtractionFails ==
  /\ ExtractionFailed => (promise.state = "rejected" /\ similarities = NoResult)
  /\ similarities # NoResult =>
       /\ extracts = <<"fulfilled", "fulfilled">>
       /\ promise.state = "fulfilled"
       /\ similarities.cosineSimilarity =
            calculateAccurateCosineSimilarity(features1, features2)

\* One extraction succeeded, the other failed, and the call is rejected
\* with no scores.
C14_Witness ==
  /\ phase = "thrown"
  /\ \E i, j \in 1..2 : extracts[i] = "fulfilled" /\ extracts[j] = "rejected"
  /\ promise.state = "rejected"
  /\ similarities = NoResult

-----------------------------------------------------------------------------
(* generateDifferenceHeatmap, event by event *)

\* The number of pixels of the canvas (size * size in the code).
HeatPixels == 2

\* RGBA pixels of the images: opaque ones and a translucent one.
HeatPixelValues ==
  { <<0, 0, 0, 255>>, <<255, 128, 0, 255>>, <<255, 255, 255, 255>>,
    <<20, 20, 20, 51>> }

HeatImageInputs == SeqsOfLen(HeatPixelValues, HeatPixels)

Min255(n) == IF n > 255 THEN 255 ELSE n

\* The pixel of a canvas whose width has just been set.
TransparentBlack == <<0, 0, 0, 0>>

\* A bitmap with premultiplied 8-bit channels: what it stores for an RGBA
\* pixel, what getImageData returns for a stored pixel, and source-over
\* compositing of a stored pixel onto another.
Premultiplied(px) ==
  <<RoundedQuotient(px[1] * px[4], 255, FALSE),
    RoundedQuotient(px[2] * px[4], 255, FALSE),
    RoundedQuotient(px[3] * px[4], 255, FALSE), px[4]>>

Unpremultiplied(st) ==
  IF st[4] = 0 THEN TransparentBlack
  ELSE <<Min255(RoundedQuotient(st[1] * 255, st[4], FALSE)),
         Min255(RoundedQuotient(st[2] * 255, st[4], FALSE)),
         Min255(RoundedQuotient(st[3] * 255, st[4], FALSE)), st[4]>>

SourceOver(dst, src) ==
  [c \in 1..4 |-> Min255(src[c] + RoundedQuotient(dst[c] * (255 - src[4]), 255, FALSE))]

\* Source-over compositing on a bitmap that stores the RGBA pixel itself.
StraightOver(dst, src) ==
  LET den == src[4] * 255 + dst[4] * (255 - src[4])
  IN  IF den = 0 THEN TransparentBlack
      ELSE [c \in 1..4 |->
              IF c = 4 THEN RoundedQuotient(den, 255, FALSE)
              ELSE RoundedQuotient(src[c] * src[4] * 255 + dst[c] * dst[4] * (255 - src[4]),
                                   den, FALSE)]

\* ctx.drawImage(img, 0, 0, size, size) onto the bitmap
DrawImage(store, bitmap, img) ==
  [i \in 1..Len(img) |->
     IF store = "premultiplied"
       THEN SourceOver(bitmap[i], Premultiplied(img[i]))
       ELSE StraightOver(bitmap[i], img[i])]

\* ctx.getImageData(0, 0, size, size).data, pixel by pixel
GetImageData(store, bitmap) ==
  [i \in 1..Len(bitmap) |->
     IF store = "premultiplied" THEN Unpremultiplied(bitmap[i]) ELSE bitmap[i]]

\* Math.abs(data1[i] - data2[i]) + ... over the three colour channels
RawDifference(p, q) ==
  AbsInt(p[1] - q[1]) + AbsInt(p[2] - q[2]) + AbsInt(p[3] - q[3])

\* const intensity = Math.min(255, diff / 3)
Intensity(diff) == MathMin(Lit(255, 1), FDiv(FromInt(diff), Lit(3, 1)))

\* The colour mapping without Math.min and Math.max.
HeatChannelsUnbounded(intensity) ==
  [red   |-> FMul(intensity, Lit(3, 2)),
   green |-> FSub(Lit(128, 1), intensity),
   blue  |-> FSub(Lit(255, 1), FMul(intensity, Lit(2, 1))),
   alpha |-> FAdd(intensity, Lit(50, 1))]

\* The four numbers assigned to diffData.data[i .. i + 3].
HeatChannels(intensity) ==
  [red   |-> MathMin(Lit(255, 1), FMul(intensity, Lit(3, 2))),
   green |-> MathMax(Zero, FSub(Lit(128, 1), intensity)),
   blue  |-> MathMax(Zero, FSub(Lit(255, 1), FMul(intensity, Lit(2, 1)))),
   alpha |-> MathMin(Lit(255, 1), FAdd(intensity, Lit(50, 1)))]

\* The conversion of a number stored into a Uint8ClampedArray: clamped to
\* 0..255 and rounded to the nearest integer, ties to even; NaN gives 0.
ToUint8Clamp(x) ==
  IF IsNaN(x) THEN 0
  ELSE IF x.m <= 0 THEN 0
  ELSE IF x.k = "inf" \/ x.e >= 0 THEN 255
  ELSE IF -x.e > Prec + 1 THEN 0
  ELSE Min255(RoundedQuotient(x.m, 2^(-x.e), FALSE))

StoredPixel(ch) ==
  <<ToUint8Clamp(ch.red), ToUint8Clamp(ch.green), ToUint8Clamp(ch.blue),
    ToUint8Clamp(ch.alpha)>>

\* One iteration of the loop over the pixels.
HeatPixel(p, q) == StoredPixel(HeatChannels(Intensity(RawDifference(p, q))))

\* processImages, lines 438-469, for the pair srcs: image 1 is drawn on
\* the blank canvas and read back, image 2 is drawn over it on the same
\* canvas (no clearRect in between) and read back, and each pixel of the
\* heatmap is coloured from the two read-backs.
CanvasData(store, srcs) ==
  LET blank  == [k \in 1..HeatPixels |-> TransparentBlack]
      first  == DrawImage(store, blank, srcs[1])
      second == DrawImage(store, first, srcs[2])
  IN  <<GetImageData(store, first), GetImageData(store, second)>>

HeatmapOf(store, srcs) ==
  LET d == CanvasData(store, srcs)
  IN  [k \in 1..HeatPixels |-> HeatPixel(d[1][k], d[2][k])]

InitHeatmap ==
  /\ phase = "heat-call"
  /\ features1 = NoFeatures
  /\ features2 = NoFeatures
  /\ cosineSim = NaN
  /\ data1 = << >>
  /\ data2 = << >>
  /\ loaded = FALSE
  /\ correlationOut = NaN
  /\ context \in BOOLEAN
  /\ images = <<"idle", "idle">>
  /\ loadedCount = 0
  /\ extracts = <<"pending", "pending">>
  /\ promise = Pending
  /\ PageIdle
  /\ ResourcesIdle
  /\ backing \in {"premultiplied", "straight"}
  /\ sources \in HeatImageInputs \X HeatImageInputs
  /\ diffData = << >>
  /\ similarities = NoResult
  /\ style = NoStyle
  /\ config = defaultGradingConfig
  /\ enhancedResult = NoResult
  /\ percentage = NaN
  /\ previous = NoResult

\* The executor: without a context reject and return, otherwise the
\* handlers are set and both images start loading.
HeatStart ==
  /\ phase = "heat-call"
  /\ IF ~context
       THEN /\ promise' = Reject(promise)
            /\ phase' = "heat-returned"
            /\ UNCHANGED images
       ELSE /\ images' = <<"pending", "pending">>
            /\ phase' = "heat-loading"
            /\ UNCHANGED promise
  /\ UNCHANGED <<data1, data2, loaded, loadedCount, context, backing, sources, diffData>>
  /\ UNCHANGED <<features1, features2, cosineSim, similarities, style, config,
                 enhancedResult, percentage, previous, correlationOut, extracts>>
  /\ UNCHANGED resourceVars
  /\ UNCHANGED pageVars

\* img.onload = processImages: with the second image loaded both images
\* are drawn on the one canvas, read back, and the heatmap is written.
HeatImageLoaded(i) ==
  /\ phase = "heat-loading"
  /\ images[i] = "pending"
  /\ images' = [images EXCEPT ![i] = "loaded"]
  /\ loadedCount' = loadedCount + 1
  /\ IF loadedCount + 1 = 2
       THEN /\ data1' = CanvasData(backing, sources)[1]
            /\ data2' = CanvasData(backing, sources)[2]
            /\ diffData' = HeatmapOf(backing, sources)
            /\ loaded' = TRUE
            /\ promise' = Resolve(promise, NaN)
       ELSE UNCHANGED <<data1, data2, diffData, loaded, promise>>
  /\ UNCHANGED <<phase, context, backing, sources>>
  /\ UNCHANGED <<features1, features2, cosineSim, similarities, style, config,
                 enhancedResult, percentage, previous, correlationOut, extracts>>
  /\ UNCHANGED resourceVars
  /\ UNCHANGED pageVars

\* img.onerror = reject
HeatImageError(i) ==
  /\ phase = "heat-loading"
  /\ images[i] = "pending"
  /\ images' = [images EXCEPT ![i] = "error"]
  /\ promise' = Reject(promise)
  /\ UNCHANGED <<phase, context, data1, data2, loaded, loadedCount, backing,
                 sources, diffData>>
  /\ UNCHANGED <<features1, features2, cosineSim, similarities, style, config,
                 enhancedResult, percentage, previous, correlationOut, extracts>>
  /\ UNCHANGED resourceVars
  /\ UNCHANGED pageVars

NextHeatmap ==
  \/ HeatStart
  \/ \E i \in 1..2 : HeatImageLoaded(i)
  \/ \E i \in 1..2 : HeatImageError(i)

SpecHeatmap == InitHeatmap /\ [][NextHeatmap]_vars

\* The heatmap has been written.
HeatmapDrawn == phase = "heat-loading" /\ promise.state = "fulfilled"

\* The colour written for a raw difference of 0.
ZeroDifferenceColour == HeatPixel(TransparentBlack, TransparentBlack)

\* C16: for two identical images every pixel of the heatmap is the colour
\* of a raw difference of 0.
C16_IdenticalImagesGiveUniformHeatmap ==
  (HeatmapDrawn /\ sources[1] = sources[2])
    => \A k \in 1..HeatPixels : diffData[k] = ZeroDifferenceColour


\* The raw difference of pixel k of the two image data read back.
DifferenceAt(k) == RawDifference(data1[k], data2[k])

InByteRange(x) == IsFinite(x) /\ FGe(x, Zero) /\ FLe(x, Lit(255, 1))

\* The pixel stored for each raw difference that three 8-bit channels
\* can give.
HeatTable == [d \in 0..(3 * 255) |-> StoredPixel(HeatChannels(Intensity(d)))]

\* From each raw difference to the next, red and alpha do not decrease and
\* blue does not increase.
HeatTableMonotonic ==
  \A d \in 0..(3 * 255 - 1) :
    /\ HeatTable[d][1] <= HeatTable[d + 1][1]
    /\ HeatTable[d][4] <= HeatTable[d + 1][4]
    /\ HeatTable[d][3] >= HeatTable[d + 1][3]

\* C20: the pixels of a heatmap are those of the colour mapping, in which
\* red and alpha do not decrease and blue does not increase as the raw
\* difference d grows, so that the same holds between any two pixels of
\* the heatmap; every number assigned to a channel, and every byte stored
\* for it, lies in [0,255].
C20_ChannelsMonotonicAndBounded ==
  HeatmapDrawn =>
    /\ HeatTableMonotonic
    /\ \A j, k \in 1..HeatPixels :
         DifferenceAt(j) <= DifferenceAt(k) =>
           /\ diffData[j][1] <= diffData[k][1]
           /\ diffData[j][4] <= diffData[k][4]
           /\ diffData[j][3] >= diffData[k][3]
    /\ \A k \in 1..HeatPixels :
         /\ diffData[k] = HeatTable[DifferenceAt(k)]
         /\ \A c \in 1..4 : diffData[k][c] \in 0..255
         /\ LET ch == HeatChannels(Intensity(DifferenceAt(k)))
            IN  /\ InByteRange(ch.red)
                /\ InByteRange(ch.green)
                /\ InByteRange(ch.blue)
                /\ InByteRange(ch.alpha)

\* A heatmap with two pixels of different raw differences, the larger one
\* strictly redder, more opaque and less blue, and one with saturated red.
C20_Witness ==
  /\ HeatmapDrawn
  /\ \E j, k \in 1..HeatPixels :
       /\ DifferenceAt(j) < DifferenceAt(k)
       /\ diffData[j][1] < diffData[k][1]
       /\ diffData[j][4] < diffData[k][4]
       /\ diffData[j][3] > diffData[k][3]
       /\ diffData[k][1] = 255
       /\ diffData[k][3] = 0

-----------------------------------------------------------------------------
(* EnhancedImageComparisonApp: the model load, handleImageUpload and       *)
(* compareImages, await by await                                           *)

\* The variables of the calls that compareImages awaits, followed on their
\* own above.
awaitedVars == <<features1, features2, cosineSim, data1, data2, loaded, config,
                 percentage, correlationOut, context, images,
                 loadedCount, extracts, promise, heatVars, resourceVars>>

\* An embedding classified as sketch, one as realistic, one as abstract.
EmbeddingInputs ==
  { <<Zero, Zero, Zero>>, <<Zero, Lit(1, 1), Lit(1, 1)>>, <<Zero, Zero, Lit(1, 1)>> }

InitPage ==
  /\ phase = "page"
  /\ features1 = NoFeatures
  /\ features2 = NoFeatures
  /\ cosineSim = NaN
  /\ data1 = << >>
  /\ data2 = << >>
  /\ loaded = FALSE
  /\ HeatIdle
  /\ ResourcesIdle
  /\ correlationOut = NaN
  /\ context = TRUE
  /\ images = <<"idle", "idle">>
  /\ loadedCount = 0
  /\ extracts = <<"pending", "pending">>
  /\ promise = Pending
  /\ page = InitialPage
  /\ before = InitialPage
  /\ inFlight = 0
  /\ embeddings \in [ImageIds -> EmbeddingInputs]
  /\ similarities = NoResult
  /\ style = NoStyle
  /\ config = defaultGradingConfig
  /\ enhancedResult = NoResult
  /\ percentage = NaN
  /\ previous = NoResult

\* useEffect, loadModel: mobilenet.load() resolves and the model is set, or
\* it fails and only the error is logged; finally setModelLoading(false).
ModelLoadSettled ==
  /\ page.modelLoading
  /\ \E ok \in BOOLEAN :
       page' = [page EXCEPT !.model = ok, !.modelLoading = FALSE]
  /\ UNCHANGED <<phase, before, inFlight, embeddings, similarities, style,
                 enhancedResult, previous>>
  /\ UNCHANGED awaitedVars

\* The upload handler that clears the result only.
handleImageUploadKeepingHeatmap(type) ==
  /\ ~page.modelLoading
  /\ \E id \in ImageIds :
       page' = [page EXCEPT ![type] = id, !.result = NoResult]
  /\ phase' = IF phase \in {"compared", "failed"} THEN "page" ELSE phase
  /\ UNCHANGED <<before, inFlight, embeddings, similarities, style,
                 enhancedResult, previous>>
  /\ UNCHANGED awaitedVars

\* handleImageUpload(file, type); the file inputs are disabled while the
\* model is loading only.
handleImageUpload(type) ==
  /\ ~page.modelLoading
  /\ \E id \in ImageIds :
       page' = [page EXCEPT ![type] = id,
                            !.result = NoResult,
                            !.heatmapUrl = FALSE]
  /\ phase' = IF phase \in {"compared", "failed"} THEN "page" ELSE phase
  /\ UNCHANGED <<before, inFlight, embeddings, similarities, style,
                 enhancedResult, previous>>
  /\ UNCHANGED awaitedVars

\* The Compare button that stays enabled while a comparison is running.
CompareEnabledWhileLoading(p) ==
  p.referenceImage # 0 /\ p.studentImage # 0 /\ p.model

\* disabled={!referenceImage || !studentImage || !model || isLoading}, and
\* the guard at the head of compareImages
CompareEnabled(p) ==
  p.referenceImage # 0 /\ p.studentImage # 0 /\ p.model /\ ~p.isLoading

\* The scores that calculateEnhancedSimilarity resolves with on the page.
PageSimilarities ==
  { [cosineSimilarity |-> v, ssimScore |-> v, structuralSimilarity |-> v] :
      v \in {Lit(3, 10), Lit(1, 1)} }

\* The last comparison that got as far as a style: its images and its style.
Ended ==
  IF style = NoStyle THEN previous
  ELSE [referenceImage |-> before.referenceImage,
        studentImage   |-> before.studentImage,
        style          |-> style]

\* compareImages up to its first await.
CompareClicked ==
  /\ CompareEnabled(page)
  /\ before' = page
  /\ inFlight' = inFlight + 1
  /\ page' = [page EXCEPT !.isLoading = TRUE]
  /\ phase' = "similarity"
  /\ UNCHANGED <<embeddings, similarities, style, enhancedResult, previous>>
  /\ UNCHANGED awaitedVars

\* catch (error) { console.error(...) } finally { setIsLoading(false) }
CompareFailed ==
  /\ page' = [page EXCEPT !.isLoading = FALSE]
  /\ inFlight' = inFlight - 1
  /\ phase' = "failed"
  /\ previous' = Ended
  /\ similarities' = NoResult
  /\ style' = NoStyle
  /\ enhancedResult' = NoResult

\* await calculateEnhancedSimilarity(...)
SimilaritySettled ==
  /\ phase = "similarity"
  /\ \/ /\ similarities' \in PageSimilarities
        /\ phase' = "style"
        /\ UNCHANGED <<page, inFlight, style, enhancedResult, previous>>
     \/ CompareFailed
  /\ UNCHANGED <<before, embeddings>>
  /\ UNCHANGED awaitedVars

\* The image whose features the style is detected from, with the student
\* image in the place of the reference image.
StyleImageOfStudent(snapshot) == snapshot.studentImage

\* extractFeatures(referenceImage.url, model)
StyleImage(snapshot) == snapshot.referenceImage

\* await extractFeatures(referenceImage.url, model), detectImageStyle and
\* generateEnhancedGrade
StyleFeaturesSettled ==
  /\ phase = "style"
  /\ \/ /\ style' = detectImageStyle(embeddings[StyleImage(before)])
        /\ enhancedResult' =
             generateEnhancedGrade(similarities, style', defaultGradingConfig)
        /\ phase' = "heatmap"
        /\ UNCHANGED <<page, inFlight, similarities, previous>>
     \/ CompareFailed
  /\ UNCHANGED <<before, embeddings>>
  /\ UNCHANGED awaitedVars

\* await generateDifferenceHeatmap(...), setResult and setHeatmapUrl
HeatmapSettled ==
  /\ phase = "heatmap"
  /\ \/ /\ page' = [page EXCEPT !.result = enhancedResult,
                                !.heatmapUrl = TRUE,
                                !.isLoading = FALSE]
        /\ inFlight' = inFlight - 1
        /\ phase' = "compared"
        /\ previous' = Ended
        /\ similarities' = NoResult
        /\ style' = NoStyle
        /\ enhancedResult' = NoResult
     \/ CompareFailed
  /\ UNCHANGED <<before, embeddings>>
  /\ UNCHANGED awaitedVars

NextPage ==
  \/ ModelLoadSettled
  \/ \E type \in {"referenceImage", "studentImage"} : handleImageUpload(type)
  \/ CompareClicked
  \/ SimilaritySettled
  \/ StyleFeaturesSettled
  \/ HeatmapSettled

SpecPage == InitPage /\ [][NextPage]_vars

\* C15: when a step of compareImages has failed, the page differs from the
\* page as it was before the comparison was started and shows no grade, so
\* that it cannot be taken for the page after a successful comparison.
C15_FailureIsDistinguishable ==
  phase = "failed" => (page # before /\ page.result = NoResult)

-----------------------------------------------------------------------------
(* generateEnhancedGrade called twice with the default config and one      *)
(* style, the second time with one of the three scores raised              *)

RaiseScores == {Zero, Lit(3, 10), Lit(1, 2), Lit(7, 10), Lit(897, 1000), Lit(1, 1)}

RaiseInputs ==
  [cosineSimilarity : RaiseScores, ssimScore : RaiseScores,
   structuralSimilarity : RaiseScores \cup {NaN}]

ScoreFields == {"cosineSimilarity", "ssimScore", "structuralSimilarity"}

InitRaise ==
  /\ phase = "styled"
  /\ Idle
  /\ similarities \in RaiseInputs
  /\ style \in DetectedStyles
  /\ config = defaultGradingConfig
  /\ enhancedResult = NoResult
  /\ percentage = NaN
  /\ previous = NoResult

\* The caller keeps the first result and raises one score.
RaiseOne ==
  /\ phase = "graded"
  /\ previous = NoResult
  /\ previous' = [grade      |-> enhancedResult.grade,
                  similarity |-> enhancedResult.similarity,
                  percentage |-> percentage]
  /\ \E field \in ScoreFields, v \in RaiseScores :
       /\ FGt(v, similarities[field])
       /\ similarities' = [similarities EXCEPT ![field] = v]
  /\ enhancedResult' = NoResult
  /\ percentage' = NaN
  /\ phase' = "styled"
  /\ UNCHANGED <<features1, features2, cosineSim, data1, data2, loaded, style, config>>
  /\ UNCHANGED callVars

NextRaise == Grade \/ RaiseOne

SpecRaise == InitRaise /\ [][NextRaise]_vars

\* C30: with the default config and one style, the grading of scores of
\* which one was raised and the other two kept gives a percentage, and a
\* rounded similarity, that is not lower, and a letter that is not lower.
C30_RaisingAScoreNeverLowers ==
  (Graded /\ previous # NoResult) =>
     /\ ~FLt(percentage, previous.percentage)
     /\ ~FLt(enhancedResult.similarity, previous.similarity)
     /\ GradeRank(enhancedResult.grade) <= GradeRank(previous.grade)

\* A raised score gave a strictly higher percentage and a better letter.
C30_Witness ==
  /\ Graded
  /\ previous # NoResult
  /\ FGt(percentage, previous.percentage)
  /\ GradeRank(enhancedResult.grade) < GradeRank(previous.grade)
  /\ config = defaultGradingConfig
  /\ style \in DetectedStyles


\* A comparison on the page has detected its style.
StyleKnown == style # NoStyle /\ phase = "heatmap"

\* C24: the style of a comparison run by the page is the style of the
\* reference image's embedding; two comparisons with the same reference
\* image get the same label, confidence and multiplier, whatever their
\* student images.
C24_StyleFromReferenceAlone ==
  StyleKnown =>
    /\ style = detectImageStyle(embeddings[before.referenceImage])
    /\ (previous # NoResult /\ previous.referenceImage = before.referenceImage)
         => /\ style = previous.style
            /\ StyleAdjustment(defaultGradingConfig, style) =
                 StyleAdjustment(defaultGradingConfig, previous.style)

\* Two comparisons with the same reference image and different student
\* images, whose embeddings are classified differently.
C24_Witness ==
  /\ StyleKnown
  /\ previous # NoResult
  /\ previous.referenceImage = before.referenceImage
  /\ previous.studentImage # before.studentImage
  /\ detectImageStyle(embeddings[previous.studentImage]).style #
       detectImageStyle(embeddings[before.studentImage]).style
  /\ style = previous.style


\* C25: a result on display was computed from the two images on display:
\* the images that the comparison which set it was started with.
C25_ResultOfSelectedImages ==
  page.result # NoResult =>
    /\ page.referenceImage = before.referenceImage
    /\ page.studentImage = before.studentImage

ResultAndHeatmapTogether == (page.result # NoResult) <=> page.heatmapUrl

\* C26: result is set exactly when heatmapUrl is; an upload clears both, a
\* successful comparison sets both and a failed one changes neither.
C26_ResultIffHeatmap ==
  /\ []ResultAndHeatmapTogether
  /\ [][ /\ (\E type \in {"referenceImage", "studentImage"} : page'[type] # page[type])
              => (page'.result = NoResult /\ ~page'.heatmapUrl)
         /\ phase' = "compared"
              => (page'.result # NoResult /\ page'.heatmapUrl)
         /\ phase' = "failed"
              => (page'.result = page.result /\ page'.heatmapUrl = page.heatmapUrl)
       ]_vars

\* A result is on display with its heatmap.
C26_Witness ==
  /\ phase = "compared"
  /\ page.result # NoResult
  /\ page.heatmapUrl

\* C28: a comparison is in flight only with a reference image, a student
\* image and a loaded model, as selected when it was started, and no more
\* than one comparison is in flight.
C28_OneComparisonWithAllInputs ==
  /\ inFlight \in {0, 1}
  /\ inFlight = 1 <=> page.isLoading
  /\ inFlight = 1 =>
       /\ before.referenceImage # 0
       /\ before.studentImage # 0
       /\ before.model
       /\ page.model

\* A comparison is in flight.
C28_Witness ==
  /\ inFlight = 1
  /\ phase = "heatmap"
  /\ page.isLoading

\* ---------------------------------------------------------------------
\* C29: generateDifferenceHeatmap is symmetric in its inputs for every
\* pair of images, transparent pixels included: the heatmap drawn for
\* (A, B) is the heatmap the function draws for (B, A).
Swapped(srcs) == <<srcs[2], srcs[1]>>

C29_HeatmapSymmetric ==
  HeatmapDrawn => diffData = HeatmapOf(backing, Swapped(sources))

----------------------------------------------------------------------------
(* The tf.Tensor objects of calculateSSIM (imageProcessing.ts) and of the   *)
(* feature extraction, followed one by one: every operation of the library *)
(* returns a new tensor, and a tensor is released only by dispose()         *)

MaxDim == 2

\* The number of channels of an image tensor: grey, RGB, RGBA.
Channels == {1, 3, 4}

TensorShapes == (1..MaxDim) \X (1..MaxDim) \X Channels

Scalar == << >>

\* A tensor as the heap records it.
Tensor(name, shape, by) ==
  [name |-> name, shape |-> shape, by |-> by, disposals |-> 0]

New(name, shape) == <<"new", name, shape>>

Disposing(name) == <<"dispose", name, Scalar>>

\* t.dispose() on the tensor the name refers to
Dispose(heap, name) ==
  [k \in DOMAIN heap |->
     IF heap[k].name = name
       THEN [heap[k] EXCEPT !.disposals = @ + 1]
       ELSE heap[k]]

\* The statements of a function run in order on the heap; by is the
\* function running them.
RECURSIVE Exec(_, _, _)
Exec(heap, statements, by) ==
  IF statements = << >> THEN heap
  ELSE LET st == Head(statements)
       IN  Exec(IF st[1] = "new"
                  THEN Append(heap, Tensor(st[2], st[3], by))
                  ELSE Dispose(heap, st[2]),
                Tail(statements), by)

News(names, shape) == [k \in DOMAIN names |-> New(names[k], shape)]

Disposings(names) == [k \in DOMAIN names |-> Disposing(names[k])]

\* calculateSSIM, lines 6-11: img2 is resized to the height and width of
\* img1; an image of three channels is converted to a new grey tensor, any
\* other image is used as it is, so that gray1 is img1 itself and gray2 is
\* resizedImg2 itself.
Gray1Of(shape1) == IF shape1[3] = 3 THEN "gray1" ELSE "img1"

Gray2Of(shape2) == IF shape2[3] = 3 THEN "gray2" ELSE "resizedImg2"

SsimImages(shape1, shape2) ==
  <<New("resizedImg2", <<shape1[1], shape1[2], shape2[3]>>)>>
  \o (IF shape1[3] = 3 THEN <<New("gray1", <<shape1[1], shape1[2], 1>>)>> ELSE << >>)
  \o (IF shape2[3] = 3 THEN <<New("gray2", <<shape1[1], shape1[2], 1>>)>> ELSE << >>)

\* lines 14-35: the scalars, those bound to a constant and those that are
\* only an argument of the next operation
SsimScalars ==
  News(<<"mu1", "mu2", "mu1Sq", "mu2Sq", "mu1Mu2",
         "tf.square(gray1)", "tf.mean(tf.square(gray1))", "sigma1Sq",
         "tf.square(gray2)", "tf.mean(tf.square(gray2))", "sigma2Sq",
         "tf.mul(gray1, gray2)", "tf.mean(tf.mul(gray1, gray2))", "sigma12",
         "tf.mul(mu1Mu2, 2)", "tf.add(tf.mul(mu1Mu2, 2), c1)",
         "tf.mul(sigma12, 2)", "tf.add(tf.mul(sigma12, 2), c2)", "numerator",
         "mu1Sq.add(mu2Sq)", "tf.add(mu1Sq.add(mu2Sq), c1)",
         "sigma1Sq.add(sigma2Sq)", "tf.add(sigma1Sq.add(sigma2Sq), c2)",
         "denominator", "ssim">>, Scalar)

\* lines 38-51: clean up
SsimCleanUp(shape1, shape2) ==
  Disposings(<<Gray1Of(shape1), Gray2Of(shape2), "resizedImg2", "mu1", "mu2",
               "mu1Sq", "mu2Sq", "mu1Mu2", "sigma1Sq", "sigma2Sq", "sigma12",
               "numerator", "denominator", "ssim">>)

calculateSSIM(heap, shape1, shape2) ==
  Exec(heap,
       SsimImages(shape1, shape2) \o SsimScalars \o SsimCleanUp(shape1, shape2),
       "calculateSSIM")

\* A shape the source does not state.
Unstated == <<0>>

\* extractFeatures lines 90-94, extractEnhancedFeatures lines 67-71: the
\* chain from the image to the input of the model; only its last link is
\* bound to a constant.
PixelsToTensor(height, width) ==
  <<New("tf.browser.fromPixels(img)", <<height, width, 3>>),
    New(".resizeNearestNeighbor([224, 224])", <<224, 224, 3>>),
    New(".expandDims(0)", <<1, 224, 224, 3>>),
    New(".cast('float32')", <<1, 224, 224, 3>>),
    New("tensor", <<1, 224, 224, 3>>)>>

\* model.infer(tensor, true)
Infer == <<New("embeddings", Unstated)>>

\* extractFeatures lines 99-100, extractEnhancedFeatures lines 84-85
ExtractCleanUp == Disposings(<<"tensor", "embeddings">>)

\* extractColorHistogram, lines 104-112, up to await histogram.data();
\* when tf.split throws, only the squeezed tensor has been made.
ColorHistogramSqueeze == <<New("extractColorHistogram: tensor.squeeze()", <<224, 224, 3>>)>>

ColorHistogramTensors ==
  News(<<"r", "g", "b">>, <<224, 224, 1>>)
  \o News(<<"rHist", "gHist", "bHist">>, <<1>>)
  \o <<New("histogram", <<3>>)>>

\* lines 115-121
ColorHistogramCleanUp ==
  Disposings(<<"r", "g", "b", "rHist", "gHist", "bHist", "histogram">>)

\* extractEdgeFeatures, lines 128-143, up to the first tf.conv2d
EdgeKernels ==
  <<New("extractEdgeFeatures: tensor.squeeze()", <<224, 224, 3>>),
    New("grayscale", <<224, 224, 1>>),
    New("tf.tensor2d(sobelX)", <<3, 3>>),
    New("tf.tensor2d(sobelX).expandDims(2)", <<3, 3, 1>>),
    New("sobelX", <<3, 3, 1, 1>>),
    New("tf.tensor2d(sobelY)", <<3, 3>>),
    New("tf.tensor2d(sobelY).expandDims(2)", <<3, 3, 1>>),
    New("sobelY", <<3, 3, 1, 1>>),
    New("edgesX: grayscale.expandDims(0)", <<1, 224, 224, 1>>),
    New("edgesX: grayscale.expandDims(0).expandDims(3)", <<1, 224, 224, 1, 1>>)>>

\* lines 146-153, when tf.conv2d returns, up to await edgeFeatures.data()
EdgeConvolutions ==
  News(<<"edgesX">>, Unstated)
  \o <<New("edgesY: grayscale.expandDims(0)", <<1, 224, 224, 1>>),
       New("edgesY: grayscale.expandDims(0).expandDims(3)", <<1, 224, 224, 1, 1>>)>>
  \o News(<<"edgesY", "tf.square(edgesX)", "tf.square(edgesY)",
            "tf.add(tf.square(edgesX), tf.square(edgesY))", "edgeMagnitude",
            "edgeFeatures">>, Unstated)

\* lines 156-162
EdgeCleanUp ==
  Disposings(<<"grayscale", "sobelX", "sobelY", "edgesX", "edgesY",
               "edgeMagnitude", "edgeFeatures">>)

Extractions == {"extractFeatures", "extractEnhancedFeatures"}

\* What a call of the library does: it returns or it throws.
Outcomes == {"returns", "throws"}

\* Before the call of calculateSSIM the caller holds the two tensors it
\* passes; an extraction starts without tensors, its image loading.
InitTensors ==
  /\ features1 = NoFeatures
  /\ features2 = NoFeatures
  /\ cosineSim = NaN
  /\ data1 = << >>
  /\ data2 = << >>
  /\ loaded = FALSE
  /\ HeatIdle
  /\ PageIdle
  /\ correlationOut = NaN
  /\ context = TRUE
  /\ images = <<"idle", "idle">>
  /\ loadedCount = 0
  /\ extracts = <<"pending", "pending">>
  /\ promise = Pending
  /\ arrival = << >>
  /\ \/ /\ call = "calculateSSIM"
        /\ phase = "tensor-call"
        /\ \E shape1 \in TensorShapes, shape2 \in TensorShapes :
             tensors = <<Tensor("img1", shape1, "caller"),
                         Tensor("img2", shape2, "caller")>>
     \/ /\ call \in Extractions
        /\ phase = "tensor-loading"
        /\ tensors = << >>
  /\ similarities = NoResult
  /\ style = NoStyle
  /\ config = defaultGradingConfig
  /\ enhancedResult = NoResult
  /\ percentage = NaN
  /\ previous = NoResult

\* What the actions of this part leave alone.
untensorVars == <<features1, features2, cosineSim, data1, data2, loaded,
                  similarities, style, config, enhancedResult, percentage,
                  previous, correlationOut, context, images, loadedCount,
                  extracts, heatVars, pageVars, call, arrival>>

\* The whole call of calculateSSIM.
CalculateSsimCalled ==
  /\ phase = "tensor-call"
  /\ call = "calculateSSIM"
  /\ tensors' = calculateSSIM(tensors, tensors[1].shape, tensors[2].shape)
  /\ phase' = "tensor-returned"
  /\ UNCHANGED promise
  /\ UNCHANGED untensorVars

\* catch (error) { reject(error) }, and img.onerror = reject
Rejected ==
  /\ promise' = Reject(promise)
  /\ phase' = "tensor-settled"

\* img.onload, up to await embeddings.data(): the image has some size, and
\* model.infer returns the embeddings or throws.
TensorImageLoaded ==
  /\ phase = "tensor-loading"
  /\ \E height \in 1..MaxDim, width \in 1..MaxDim :
       \/ /\ tensors' = Exec(tensors, PixelsToTensor(height, width) \o Infer, call)
          /\ phase' = "await-embeddings"
          /\ UNCHANGED promise
       \/ /\ tensors' = Exec(tensors, PixelsToTensor(height, width), call)
          /\ Rejected
  /\ UNCHANGED untensorVars

TensorImageError ==
  /\ phase = "tensor-loading"
  /\ Rejected
  /\ UNCHANGED tensors
  /\ UNCHANGED untensorVars

\* The continuation of await embeddings.data(). extractFeatures cleans up
\* and resolves; extractEnhancedFeatures calls extractColorHistogram, which
\* runs up to await histogram.data() unless tf.split throws.
EmbeddingsRead ==
  /\ phase = "await-embeddings"
  /\ IF call = "extractFeatures"
       THEN /\ tensors' = Exec(tensors, ExtractCleanUp, call)
            /\ promise' = Resolve(promise, NaN)
            /\ phase' = "tensor-settled"
       ELSE \/ /\ tensors' = Exec(tensors, ColorHistogramSqueeze \o ColorHistogramTensors,
                                  "extractColorHistogram")
               /\ phase' = "await-histogram"
               /\ UNCHANGED promise
            \/ /\ tensors' = Exec(tensors, ColorHistogramSqueeze, "extractColorHistogram")
               /\ Rejected
  /\ UNCHANGED untensorVars

\* The continuation of await histogram.data(): extractColorHistogram cleans
\* up and returns, and extractEdgeFeatures runs up to await
\* edgeFeatures.data() unless tf.conv2d throws.
HistogramRead ==
  /\ phase = "await-histogram"
  /\ LET cleaned == Exec(tensors, ColorHistogramCleanUp, "extractColorHistogram")
     IN  \/ /\ tensors' = Exec(cleaned, EdgeKernels \o EdgeConvolutions, "extractEdgeFeatures")
            /\ phase' = "await-edges"
            /\ UNCHANGED promise
         \/ /\ tensors' = Exec(cleaned, EdgeKernels, "extractEdgeFeatures")
            /\ Rejected
  /\ UNCHANGED untensorVars

\* The continuation of await edgeFeatures.data(): extractEdgeFeatures cleans
\* up and returns, extractEnhancedFeatures cleans up and resolves.
EdgesRead ==
  /\ phase = "await-edges"
  /\ tensors' = Exec(Exec(tensors, EdgeCleanUp, "extractEdgeFeatures"), ExtractCleanUp, call)
  /\ promise' = Resolve(promise, NaN)
  /\ phase' = "tensor-settled"
  /\ UNCHANGED untensorVars

NextTensors ==
  \/ CalculateSsimCalled
  \/ TensorImageLoaded
  \/ TensorImageError
  \/ EmbeddingsRead
  \/ HistogramRead
  \/ EdgesRead

SpecTensors == InitTensors /\ [][NextTensors]_vars

\* ---------------------------------------------------------------------
\* C22: after calculateSSIM no tensor of the caller has been disposed,
\* whatever the shapes of the two inputs, and dispose() was called at most
\* once on each tensor.
SsimReturned == call = "calculateSSIM" /\ phase = "tensor-returned"

C22_InputsKeptAndDisposedOnce ==
  SsimReturned =>
    \A k \in DOMAIN tensors :
      /\ tensors[k].by = "caller" => tensors[k].disposals = 0
      /\ tensors[k].disposals <= 1

\* ---------------------------------------------------------------------
\* C21: when an extraction has settled, resolved or rejected, dispose()
\* has been called on every tensor made during it.
ExtractionSettled == call \in Extractions /\ promise.state # "pending"

C21_NoTensorLeftLive ==
  ExtractionSettled => \A k \in DOMAIN tensors : tensors[k].disposals >= 1

----------------------------------------------------------------------------
(* One comparison of the page followed event by event: compareImages       *)
(* awaits calculateEnhancedSimilarity (two extractFeatures promises, then  *)
(* calculateAccurateSSIM), extractFeatures for the style, and              *)
(* generateDifferenceHeatmap; every image fires load or error in any order *)

\* A picture of one colour: opaque black, or a translucent grey.
RunPictures ==
  { [k \in 1..HeatPixels |-> v] : v \in { <<0, 0, 0, 255>>, <<20, 20, 20, 51>> } }

\* The reference image has any of the embeddings, the student image the
\* one classified as realistic.
RunEmbeddings ==
  { [id \in ImageIds |-> IF id = 1 THEN e ELSE <<Zero, Lit(1, 1), Lit(1, 1)>>] :
      e \in EmbeddingInputs }

\* The image compareImages passes as the i-th url.
ImageOf(snapshot, i) ==
  IF i = 1 THEN snapshot.referenceImage ELSE snapshot.studentImage

\* What getImageData returns for an image drawn on a canvas of its own.
ReadBack(store, img) ==
  GetImageData(store, DrawImage(store, [k \in 1..Len(img) |-> TransparentBlack], img))

BothLoadedAtThree(count) == count = 3

\* processImages: if (loadedCount === 2)
BothLoaded(count) == count = 2

DrawnInArrivalOrder ==
  IF \E k \in DOMAIN arrival : arrival[k] = <<"heatmap", 2>>
    THEN <<2, 1>>
    ELSE <<1, 2>>

\* processImages of generateDifferenceHeatmap draws img1, then img2.
DrawOrder == <<1, 2>>

Backings == {"premultiplied", "straight"}

\* The functions a comparison calls are pure: each is tabulated here over
\* the arguments a run can pass to it, and the steps below look the value
\* of a call up in its table. Tabulated(f) is f with every value computed.
Tabulated(f) == << >> @@ f

CosineTable ==
  Tabulated([p \in EmbeddingInputs \X EmbeddingInputs |->
       calculateAccurateCosineSimilarity(p[1], p[2])])

StructuralTable ==
  Tabulated([p \in EmbeddingInputs \X EmbeddingInputs |->
       calculateAccurateStructuralSimilarity(p[1], p[2])])

ReadBackTable == Tabulated([k \in Backings \X RunPictures |-> ReadBack(k[1], k[2])])

ReadBacks == { ReadBackTable[k] : k \in DOMAIN ReadBackTable }

SsimTable ==
  Tabulated([d \in ReadBacks \X ReadBacks |->
       calculateAccurateSSIM(d[1], d[2], TRUE)])

StyleTable == Tabulated([e \in EmbeddingInputs |-> detectImageStyle(e)])

HeatmapTable ==
  Tabulated([k \in Backings \X RunPictures \X RunPictures |->
       HeatmapOf(k[1], <<k[2], k[3]>>)])

\* The scores calculateEnhancedSimilarity can return in a run.
RunSimilarities ==
  { [cosineSimilarity     |-> CosineTable[p],
     ssimScore            |-> s,
     structuralSimilarity |-> StructuralTable[p]] :
      p \in EmbeddingInputs \X EmbeddingInputs,
      s \in { SsimTable[d] : d \in DOMAIN SsimTable } \cup { Lit(1, 10) } }

GradeTable ==
  Tabulated([k \in RunSimilarities \X { StyleTable[e] : e \in EmbeddingInputs } |->
       generateEnhancedGrade(k[1], k[2], defaultGradingConfig)])

\* Both images are selected and the model is loaded; nothing runs yet.
InitRun ==
  /\ phase = "page"
  /\ features1 = NoFeatures
  /\ features2 = NoFeatures
  /\ cosineSim = NaN
  /\ data1 = << >>
  /\ data2 = << >>
  /\ loaded = FALSE
  /\ correlationOut = NaN
  /\ context = TRUE
  /\ images = <<"idle", "idle">>
  /\ loadedCount = 0
  /\ extracts = <<"pending", "pending">>
  /\ promise = Pending
  /\ backing \in Backings
  /\ sources \in RunPictures \X RunPictures
  /\ diffData = << >>
  /\ page = [InitialPage EXCEPT !.referenceImage = 1, !.studentImage = 2,
                                !.model = TRUE, !.modelLoading = FALSE]
  /\ before = InitialPage
  /\ inFlight = 0
  /\ embeddings \in RunEmbeddings
  /\ tensors = << >>
  /\ call = ""
  /\ arrival = << >>
  /\ similarities = NoResult
  /\ style = NoStyle
  /\ config = defaultGradingConfig
  /\ enhancedResult = NoResult
  /\ percentage = NaN
  /\ previous = NoResult

\* What no step of the comparison changes.
runFixed == <<config, percentage, previous, correlationOut, context, backing,
              sources, embeddings, tensors, call>>

\* compareImages up to its first await: setIsLoading(true), and the two
\* extractFeatures executors set their images loading.
RunClicked ==
  /\ phase = "page"
  /\ CompareEnabled(page)
  /\ before' = page
  /\ page' = [page EXCEPT !.isLoading = TRUE]
  /\ inFlight' = inFlight + 1
  /\ images' = <<"pending", "pending">>
  /\ phase' = "run-extracting"
  /\ UNCHANGED <<features1, features2, cosineSim, data1, data2, loaded,
                 loadedCount, extracts, promise, diffData, arrival,
                 similarities, style, enhancedResult>>
  /\ UNCHANGED runFixed

\* catch: console.error; finally: setIsLoading(false)
RunFailed ==
  /\ page' = [page EXCEPT !.isLoading = FALSE]
  /\ inFlight' = inFlight - 1
  /\ phase' = "run-failed"

\* extractFeatures, img.onload: model.infer returns the embedding of the
\* image and the promise is resolved with it, or it throws and the
\* promise is rejected.
RunExtractLoaded(i) ==
  /\ phase = "run-extracting"
  /\ images[i] = "pending"
  /\ images' = [images EXCEPT ![i] = "loaded"]
  /\ arrival' = Append(arrival, <<"extract", i>>)
  /\ \/ /\ features1' = IF i = 1 THEN embeddings[ImageOf(before, 1)] ELSE features1
        /\ features2' = IF i = 2 THEN embeddings[ImageOf(before, 2)] ELSE features2
        /\ extracts' = [extracts EXCEPT ![i] = "fulfilled"]
     \/ /\ extracts' = [extracts EXCEPT ![i] = "rejected"]
        /\ UNCHANGED <<features1, features2>>
  /\ UNCHANGED <<phase, cosineSim, data1, data2, loaded, loadedCount, promise,
                 diffData, page, before, inFlight, similarities, style,
                 enhancedResult>>
  /\ UNCHANGED runFixed

\* extractFeatures, img.onerror = reject
RunExtractError(i) ==
  /\ phase = "run-extracting"
  /\ images[i] = "pending"
  /\ images' = [images EXCEPT ![i] = "error"]
  /\ extracts' = [extracts EXCEPT ![i] = "rejected"]
  /\ UNCHANGED <<phase, features1, features2, cosineSim, data1, data2, loaded,
                 loadedCount, promise, diffData, arrival, page, before, inFlight,
                 similarities, style, enhancedResult>>
  /\ UNCHANGED runFixed

\* The continuation of await Promise.all([...]): a rejection is thrown to
\* the catch of compareImages; otherwise the cosine similarity is computed
\* and the executor of calculateAccurateSSIM runs, which resolves with 0.1
\* without a context and sets its two images loading with one.
ExtractsAwaited ==
  /\ phase = "run-extracting"
  /\ PromiseAll(extracts) # "pending"
  /\ IF PromiseAll(extracts) = "rejected"
       THEN /\ RunFailed
            /\ UNCHANGED <<cosineSim, images, loadedCount, promise>>
       ELSE /\ cosineSim' = CosineTable[<<features1, features2>>]
            /\ loadedCount' = 0
            /\ phase' = "run-ssim"
            /\ \/ /\ images' = <<"pending", "pending">>
                  /\ promise' = Pending
               \/ /\ images' = <<"idle", "idle">>
                  /\ promise' = Resolve(Pending, Lit(1, 10))
            /\ UNCHANGED <<page, inFlight>>
  /\ UNCHANGED <<features1, features2, data1, data2, loaded, extracts, diffData,
                 arrival, before, similarities, style, enhancedResult>>
  /\ UNCHANGED runFixed

\* calculateAccurateSSIM, img.onload = processImages: with the second load
\* each image is drawn on its own canvas, read back, and the promise is
\* resolved with the SSIM of the pixels.
RunSsimLoaded(i) ==
  /\ phase = "run-ssim"
  /\ images[i] = "pending"
  /\ images' = [images EXCEPT ![i] = "loaded"]
  /\ arrival' = Append(arrival, <<"ssim", i>>)
  /\ loadedCount' = loadedCount + 1
  /\ IF BothLoaded(loadedCount')
       THEN /\ data1' = ReadBackTable[<<backing, sources[ImageOf(before, 1)]>>]
            /\ data2' = ReadBackTable[<<backing, sources[ImageOf(before, 2)]>>]
            /\ loaded' = TRUE
            /\ promise' = Resolve(promise, SsimTable[<<data1', data2'>>])
       ELSE UNCHANGED <<data1, data2, loaded, promise>>
  /\ UNCHANGED <<phase, features1, features2, cosineSim, extracts, diffData,
                 page, before, inFlight, similarities, style, enhancedResult>>
  /\ UNCHANGED runFixed

\* img.onerror = () => resolve(0.1)
RunSsimError(i) ==
  /\ phase = "run-ssim"
  /\ images[i] = "pending"
  /\ images' = [images EXCEPT ![i] = "error"]
  /\ promise' = Resolve(promise, Lit(1, 10))
  /\ UNCHANGED <<phase, features1, features2, cosineSim, data1, data2, loaded,
                 loadedCount, extracts, diffData, arrival, page, before, inFlight,
                 similarities, style, enhancedResult>>
  /\ UNCHANGED runFixed

\* The continuation of await calculateAccurateSSIM(...): the structural
\* similarity is computed and the scores are returned to compareImages,
\* which calls extractFeatures for the reference image.
SsimAwaited ==
  /\ phase = "run-ssim"
  /\ promise.state = "fulfilled"
  /\ similarities' =
       SimilaritiesWith(promise.value, StructuralTable[<<features1, features2>>])
  /\ images' = <<"pending", "idle">>
  /\ phase' = "run-style"
  /\ UNCHANGED <<features1, features2, cosineSim, data1, data2, loaded,
                 loadedCount, extracts, promise, diffData, arrival, page, before,
                 inFlight, style, enhancedResult>>
  /\ UNCHANGED runFixed

\* generateDifferenceHeatmap, the executor: without a context the promise
\* is rejected, with one the two images are set loading.
HeatExecutor ==
  /\ loadedCount' = 0
  /\ \/ /\ images' = <<"pending", "pending">>
        /\ promise' = Pending
     \/ /\ images' = <<"idle", "idle">>
        /\ promise' = Reject(Pending)

\* extractFeatures for the style, img.onload, and the continuation of its
\* await: the style is detected, the grade generated and
\* generateDifferenceHeatmap called; or model.infer throws.
RunStyleLoaded ==
  /\ phase = "run-style"
  /\ images[1] = "pending"
  /\ \/ /\ style' = StyleTable[embeddings[StyleImage(before)]]
        /\ enhancedResult' = GradeTable[<<similarities, style'>>]
        /\ HeatExecutor
        /\ phase' = "run-heatmap"
        /\ UNCHANGED <<page, inFlight>>
     \/ /\ RunFailed
        /\ images' = [images EXCEPT ![1] = "loaded"]
        /\ UNCHANGED <<style, enhancedResult, loadedCount, promise>>
  /\ UNCHANGED <<features1, features2, cosineSim, data1, data2, loaded, extracts,
                 diffData, arrival, before, similarities>>
  /\ UNCHANGED runFixed

\* extractFeatures for the style, img.onerror = reject
RunStyleError ==
  /\ phase = "run-style"
  /\ images[1] = "pending"
  /\ images' = [images EXCEPT ![1] = "error"]
  /\ RunFailed
  /\ UNCHANGED <<features1, features2, cosineSim, data1, data2, loaded,
                 loadedCount, extracts, promise, diffData, arrival, before,
                 similarities, style, enhancedResult>>
  /\ UNCHANGED runFixed

\* generateDifferenceHeatmap, img.onload = processImages
RunHeatLoaded(i) ==
  /\ phase = "run-heatmap"
  /\ images[i] = "pending"
  /\ images' = [images EXCEPT ![i] = "loaded"]
  /\ arrival' = Append(arrival, <<"heatmap", i>>)
  /\ loadedCount' = loadedCount + 1
  /\ IF BothLoaded(loadedCount')
       THEN /\ diffData' = HeatmapTable[<<backing,
                                           sources[ImageOf(before, DrawOrder[1])],
                                           sources[ImageOf(before, DrawOrder[2])]>>]
            /\ promise' = Resolve(promise, NaN)
       ELSE UNCHANGED <<diffData, promise>>
  /\ UNCHANGED <<phase, features1, features2, cosineSim, data1, data2, loaded,
                 extracts, page, before, inFlight, similarities, style,
                 enhancedResult>>
  /\ UNCHANGED runFixed

\* img.onerror = reject
RunHeatError(i) ==
  /\ phase = "run-heatmap"
  /\ images[i] = "pending"
  /\ images' = [images EXCEPT ![i] = "error"]
  /\ promise' = Reject(promise)
  /\ UNCHANGED <<phase, features1, features2, cosineSim, data1, data2, loaded,
                 loadedCount, extracts, diffData, arrival, page, before, inFlight,
                 similarities, style, enhancedResult>>
  /\ UNCHANGED runFixed

\* The continuation of await generateDifferenceHeatmap(...): setResult,
\* setHeatmapUrl and finally setIsLoading(false), or the catch.
HeatAwaited ==
  /\ phase = "run-heatmap"
  /\ promise.state # "pending"
  /\ IF promise.state = "fulfilled"
       THEN /\ page' = [page EXCEPT !.result = enhancedResult,
                                    !.heatmapUrl = TRUE,
                                    !.isLoading = FALSE]
            /\ inFlight' = inFlight - 1
            /\ phase' = "run-done"
       ELSE RunFailed
  /\ UNCHANGED <<features1, features2, cosineSim, data1, data2, loaded, images,
                 loadedCount, extracts, promise, diffData, arrival, before,
                 similarities, style, enhancedResult>>
  /\ UNCHANGED runFixed

NextRun ==
  \/ RunClicked
  \/ \E i \in 1..2 : RunExtractLoaded(i)
  \/ \E i \in 1..2 : RunExtractError(i)
  \/ ExtractsAwaited
  \/ \E i \in 1..2 : RunSsimLoaded(i)
  \/ \E i \in 1..2 : RunSsimError(i)
  \/ SsimAwaited
  \/ RunStyleLoaded
  \/ RunStyleError
  \/ \E i \in 1..2 : RunHeatLoaded(i)
  \/ \E i \in 1..2 : RunHeatError(i)
  \/ HeatAwaited

SpecRun == InitRun /\ [][NextRun]_vars

\* Every image that is loading eventually fires its load or its error
\* event (model.infer returning or throwing within the load handler), and
\* a continuation whose promise has settled runs.
RunFairness ==
  /\ \A i \in 1..2 : WF_vars(RunExtractLoaded(i) \/ RunExtractError(i))
  /\ \A i \in 1..2 : WF_vars(RunSsimLoaded(i) \/ RunSsimError(i))
  /\ \A i \in 1..2 : WF_vars(RunHeatLoaded(i) \/ RunHeatError(i))
  /\ WF_vars(RunStyleLoaded \/ RunStyleError)
  /\ WF_vars(ExtractsAwaited)
  /\ WF_vars(SsimAwaited)
  /\ WF_vars(HeatAwaited)

SpecRunFair == SpecRun /\ RunFairness

\* ---------------------------------------------------------------------
\* C23: the scores of calculateEnhancedSimilarity and the heatmap of
\* generateDifferenceHeatmap are those of the two images in the order the
\* urls were passed, whichever image fired its load event first.
ScoresOf(snapshot) ==
  LET f1 == embeddings[snapshot.referenceImage]
      f2 == embeddings[snapshot.studentImage]
      d1 == ReadBack(backing, sources[snapshot.referenceImage])
      d2 == ReadBack(backing, sources[snapshot.studentImage])
  IN  [cosineSimilarity     |-> calculateAccurateCosineSimilarity(f1, f2),
       ssimScore            |-> SsimOfPixels(d1, d2),
       structuralSimilarity |-> calculateAccurateStructuralSimilarity(f1, f2)]

C23_ArrivalOrderIrrelevant ==
  /\ (similarities # NoResult /\ loaded) => similarities = ScoresOf(before)
  /\ diffData # << >> =>
       diffData = HeatmapOf(backing, <<sources[before.referenceImage],
                                       sources[before.studentImage]>>)

\* The second image fired its load event first in every call, the pictures
\* differ, and the comparison succeeded.
C23_Witness ==
  /\ phase = "run-done"
  /\ page.result # NoResult
  /\ loaded
  /\ sources[1] # sources[2]
  /\ arrival = << <<"extract", 2>>, <<"extract", 1>>, <<"ssim", 2>>, <<"ssim", 1>>,
                  <<"heatmap", 2>>, <<"heatmap", 1>> >>

\* ---------------------------------------------------------------------
\* C27: a comparison that was started ends with isLoading false again,
\* after a success or after a failure, when every image fires its load or
\* its error event and model.infer returns or throws.
C27_ComparisonEnds == page.isLoading ~> ~page.isLoading

\* A comparison that ended in the catch after the heatmap was rejected.
C27_Witness ==
  /\ phase = "run-failed"
  /\ similarities # NoResult
  /\ promise.state = "rejected"
  /\ before.model
  /\ ~page.isLoading

====
